---- MODULE Spec2Model ----
(***************************************************************************)
(* A model of typedoc-rhineai-theme: the plugin entry point load(app), the *)
(* RhineaiTheme constructor's host callbacks, the TestClass fixture, the    *)
(* example Cache and EventEmitter services with their method decorators,   *)
(* the Component base class, the HttpClient and the string utilities.  The *)
(* host (TypeDoc) is modelled only as far as the plugin calls it: an       *)
(* option store, a logger, a theme registry and event dispatchers that run *)
(* the registered callbacks one after another.                             *)
(***************************************************************************)
EXTENDS Integers, Sequences, FiniteSets, TLC

VARIABLES
    \* ---- host application, as seen by load(app) and RhineaiTheme
    options,        \* app.options: option name -> <<>> (not set) or <<value>>
    warnings,       \* app.logger.warn calls: sequence of <<plugin, other theme>>
    themes,         \* app.renderer themes registry: set of <<name, class>>
    listeners,      \* app 'bootstrapEnd' listeners, in registration order
    instances,      \* number of RhineaiTheme objects constructed on the renderer
    queue,          \* callbacks of the event being dispatched, still to run
    copies,         \* cpSync calls made for the event being dispatched
    head,           \* elements returned by the head.end hooks of the current call
    emitted,        \* number of host events dispatched so far
    \* ---- TestClass fixture
    made,           \* result of the last `new TestClass(...)`
    \* ---- Cache service
    copts,          \* this.options of the cache (Required<CacheOptions>)
    storage,        \* this.storage: the Map's entries in insertion order
    stats,          \* this.stats: hits, misses, evictions
    timer,          \* this.cleanupTimer is running
    nextCleanup,    \* time at which the interval timer fires next
    pending,        \* getOrSet call waiting for its factory: <<>> or <<call>>
    now,            \* Date.now()
    callers,        \* the keys the callers of this run use
    written,        \* key -> <<>> or <<time, ttl>> of the set that wrote its expiry
    ops,            \* number of calls made so far
    limit,          \* number of calls the callers of this run make
    \* ---- EventEmitter service
    emitterListeners, \* this.listeners: event or '*' -> entries in registration order
    nextListenerId, \* this.nextListenerId
    maxListeners,   \* this.maxListeners
    subscriptions,  \* the EventSubscription of listener id, at index id + 1
    stack,          \* emit calls in progress, the innermost last
    awaiting,       \* emitAsync calls suspended at `await Promise.all(promises)`
    waiter,         \* the promise of waitFor and its timer: <<>> or <<waiter>>
    warned,         \* number of console.warn calls of the emitter
    invoked,        \* how often the handler of listener id was invoked, at index id + 1
    unsubscribedAt, \* emits started when unsubscribe() of listener id first returned
    emits,          \* number of emit and emitAsync calls started so far
    \* ---- Component base class
    componentState, \* this._state
    hooks,          \* what the subclass's onBeforeMount and onMounted do
    mounting,       \* mount() calls in progress, the innermost last: where each stands
    ran,            \* how often each hook has been called
    entered,        \* how often mount() has taken _state from another state to Mounted
    \* ---- Component trees, the method decorators and the string utilities
    tree,           \* the components of a tree: id -> _state, children, handlers, parent
    retrying,       \* a call of a method decorated with retry(attempts, delay)
    debounced,      \* a method decorated with debounce(options): its closure and its calls
    given,          \* the arguments given to a utility function
    client,         \* an HttpClient: its interceptors and the request in progress
    \* ---- what the last call did (its arguments, the state it saw, its result)
    ret

hostVars == <<options, warnings, themes, listeners, instances, queue, copies, head, emitted>>
cacheVars == <<copts, storage, stats, timer, nextCleanup, pending, now, callers, written, ops,
              limit>>
emitterVars == <<emitterListeners, nextListenerId, maxListeners, subscriptions, stack, awaiting,
                waiter, warned, invoked, unsubscribedAt, emits>>
componentVars == <<componentState, hooks, mounting, ran, entered>>
exampleVars == <<tree, retrying, debounced, given, client>>
vars == <<options, warnings, themes, listeners, instances, queue, copies, head, emitted,
          made, copts, storage, stats, timer, nextCleanup, pending, now, callers, written, ops,
          limit, emitterListeners, nextListenerId, maxListeners, subscriptions, stack, awaiting,
          waiter, warned, invoked, unsubscribedAt, emits, componentState, hooks, mounting, ran,
          entered, tree, retrying, debounced, given,
          client, ret>>

(***************************************************************************)
(* Bounds                                                                  *)
(***************************************************************************)
MaxEvents == 3      \* host events dispatched in one run
MaxInstances == 2   \* RhineaiTheme objects constructed in one run
MaxDepth == 2       \* directory depth of a rendered page
MaxCount == 3       \* largest initialCount tried for TestClass
MaxOps == 2         \* cache calls in one run
MaxAttempts == 3    \* largest `attempts` given to retry
MaxLen == 3         \* longest string given to a string utility

(***************************************************************************)
(* Values                                                                  *)
(***************************************************************************)
None == <<>>
Some(v) == <<v>>
IsSome(m) == Len(m) = 1
Val(m) == m[1]

RhineaiName == "typedoc-rhineai-theme"
GithubName == "typedoc-github-theme"
Plugins == {RhineaiName, GithubName}
ThemeClass(p) == IF p = RhineaiName THEN "RhineaiTheme" ELSE "GithubTheme"
\* what the user may have put in the 'theme' option
UserThemes == {None, Some("default"), Some("other-theme"), Some(RhineaiName), Some(GithubName)}
OutDirs == {<<"docs">>, <<"out", "site">>}
NoCall == [op |-> "none"]

(***************************************************************************)
(* Host services used by the plugin                                        *)
(***************************************************************************)
OptionDefault(name) ==
    CASE name = "theme" -> "default"
      [] name = "lightHighlightTheme" -> "light-plus"
      [] OTHER -> "dark-plus"
isSet(opts, name) == IsSome(opts[name])
getValue(opts, name) == IF IsSome(opts[name]) THEN Val(opts[name]) ELSE OptionDefault(name)
setValue(opts, name, v) == [opts EXCEPT ![name] = Some(v)]

\* path.resolve(base, rel) on paths kept as sequences of segments
RECURSIVE resolve(_, _)
resolve(base, rel) ==
    IF rel = <<>> THEN base
    ELSE IF Head(rel) = "." THEN resolve(base, Tail(rel))
    ELSE IF Head(rel) = ".."
         THEN resolve(IF base = <<>> THEN base ELSE SubSeq(base, 1, Len(base) - 1), Tail(rel))
    ELSE resolve(Append(base, Head(rel)), Tail(rel))

\* dirname(fileURLToPath(import.meta.url)) of the built theme module
ModuleDir == <<"pkg", "dist">>
\* event.relativeURL(abs) of a page that lies `depth` directories below the root
relativeURL(depth, abs) == [i \in 1..depth |-> ".."] \o abs
StyleSheet == <<"assets", "rhineai-style.css">>

(***************************************************************************)
(* load(app)                                                               *)
(***************************************************************************)
\* (variant: compares the option's value without asking whether it is set)
bootstrapEndWarnsUnset(opts, p) == getValue(opts, "theme") # p

\* the 'bootstrapEnd' callback registered by load(app) of plugin p
bootstrapEndWarns(opts, p) == isSet(opts, "theme") /\ getValue(opts, "theme") # p

\* (variant: warns and then selects the plugin's theme all the same)
loadBootstrapEndOverwrites(p) ==
    /\ warnings' = IF bootstrapEndWarns(options, p)
                   THEN Append(warnings, <<p, getValue(options, "theme")>>)
                   ELSE warnings
    /\ options' = setValue(options, "theme", p)
    /\ ret' = [op |-> "bootstrapEnd", plugin |-> p, before |-> options["theme"],
               warned |-> bootstrapEndWarns(options, p)]
    /\ UNCHANGED <<themes, listeners, instances, copies, head>>

loadBootstrapEnd(p) ==
    /\ IF bootstrapEndWarns(options, p)
       THEN /\ warnings' = Append(warnings, <<p, getValue(options, "theme")>>)
            /\ options' = options
       ELSE /\ options' = setValue(options, "theme", p)
            /\ warnings' = warnings
    /\ ret' = [op |-> "bootstrapEnd", plugin |-> p, before |-> options["theme"],
               warned |-> bootstrapEndWarns(options, p)]
    /\ UNCHANGED <<themes, listeners, instances, copies, head>>

\* (variant: registers the theme only when no other theme is selected)
loadUnlessOtherTheme(p) ==
    /\ queue = <<>>
    /\ \A t \in themes : t[1] # p
    /\ themes' = IF bootstrapEndWarns(options, p) THEN themes
                 ELSE themes \cup {<<p, ThemeClass(p)>>}
    /\ listeners' = Append(listeners, [kind |-> "load", arg |-> p])
    /\ ret' = [op |-> "load", plugin |-> p, queued |-> queue, themeBefore |-> options["theme"]]
    /\ UNCHANGED <<options, warnings, instances, queue, copies, head, emitted, made, cacheVars, emitterVars,
                   componentVars, exampleVars>>

\* load(app): defineTheme, then app.on('bootstrapEnd', ...)
load(p) ==
    /\ queue = <<>>
    /\ \A t \in themes : t[1] # p
    /\ themes' = themes \cup {<<p, ThemeClass(p)>>}
    /\ listeners' = Append(listeners, [kind |-> "load", arg |-> p])
    /\ ret' = [op |-> "load", plugin |-> p, queued |-> queue, themeBefore |-> options["theme"]]
    /\ UNCHANGED <<options, warnings, instances, queue, copies, head, emitted, made, cacheVars, emitterVars,
                   componentVars, exampleVars>>

(***************************************************************************)
(* RhineaiTheme                                                            *)
(***************************************************************************)
\* new RhineaiTheme(renderer): made by the host once the theme is selected
\* and registered; registers the END listener, the head.end hook and a
\* 'bootstrapEnd' listener
RhineaiThemeConstructor ==
    /\ queue = <<>>
    /\ instances < MaxInstances
    /\ <<RhineaiName, "RhineaiTheme">> \in themes
    /\ getValue(options, "theme") = RhineaiName
    /\ instances' = instances + 1
    /\ listeners' = Append(listeners, [kind |-> "theme", arg |-> RhineaiName])
    /\ ret' = [op |-> "construct"]
    /\ UNCHANGED <<options, warnings, themes, queue, copies, head, emitted, made, cacheVars, emitterVars,
                   componentVars, exampleVars>>

\* (variant: copies the assets and leaves the public directory out)
rendererEndAssetsOnly(outputDirectory) ==
    /\ copies' = Append(copies,
          <<resolve(ModuleDir, <<"..", "src", "assets">>), resolve(outputDirectory, <<".", "assets">>)>>)
    /\ ret' = [op |-> "end", out |-> outputDirectory]
    /\ UNCHANGED <<options, warnings, themes, listeners, instances, head>>

\* the RendererEvent.END listener
rendererEnd(outputDirectory) ==
    /\ copies' = copies \o
          << <<resolve(ModuleDir, <<"..", "src", "assets">>), resolve(outputDirectory, <<".", "assets">>)>>,
             <<resolve(ModuleDir, <<"..", "src", "public">>), resolve(outputDirectory, <<".">>)>> >>
    /\ ret' = [op |-> "end", out |-> outputDirectory]
    /\ UNCHANGED <<options, warnings, themes, listeners, instances, head>>

\* (variant: links the style sheet by its root-relative path)
headEndRootPath(depth) ==
    /\ head' = Append(head, [tag |-> "link", rel |-> "stylesheet", href |-> StyleSheet])
    /\ ret' = [op |-> "head", depth |-> depth]
    /\ UNCHANGED <<options, warnings, themes, listeners, instances, copies>>

\* the 'head.end' hook
headEnd(depth) ==
    /\ head' = Append(head, [tag |-> "link", rel |-> "stylesheet",
                             href |-> relativeURL(depth, StyleSheet)])
    /\ ret' = [op |-> "head", depth |-> depth]
    /\ UNCHANGED <<options, warnings, themes, listeners, instances, copies>>

\* the theme's own 'bootstrapEnd' listener
themeBootstrapEnd ==
    /\ options' =
          LET o1 == IF ~isSet(options, "lightHighlightTheme")
                    THEN setValue(options, "lightHighlightTheme", "github-light-default")
                    ELSE options
          IN  IF ~isSet(o1, "darkHighlightTheme")
              THEN setValue(o1, "darkHighlightTheme", "github-dark-default")
              ELSE o1
    /\ ret' = [op |-> "themeBootstrapEnd"]
    /\ UNCHANGED <<warnings, themes, listeners, instances, copies, head>>

(***************************************************************************)
(* Host event dispatch                                                     *)
(***************************************************************************)
EmitBootstrapEnd ==
    /\ queue = <<>> /\ emitted < MaxEvents
    /\ listeners # <<>>
    /\ queue' = listeners
    /\ emitted' = emitted + 1
    /\ ret' = [op |-> "emit", event |-> "bootstrapEnd"]
    /\ UNCHANGED <<options, warnings, themes, listeners, instances, copies, head, made, cacheVars, emitterVars,
                   componentVars, exampleVars>>

EmitRendererEnd ==
    /\ queue = <<>> /\ emitted < MaxEvents
    /\ instances > 0
    /\ \E out \in OutDirs :
          queue' = [i \in 1..instances |-> [kind |-> "end", arg |-> out]]
    /\ copies' = <<>>
    /\ emitted' = emitted + 1
    /\ ret' = [op |-> "emit", event |-> "end"]
    /\ UNCHANGED <<options, warnings, themes, listeners, instances, head, made, cacheVars, emitterVars,
                   componentVars, exampleVars>>

EmitHeadEnd ==
    /\ queue = <<>> /\ emitted < MaxEvents
    /\ instances > 0
    /\ \E d \in 0..MaxDepth :
          queue' = [i \in 1..instances |-> [kind |-> "head", arg |-> d]]
    /\ head' = <<>>
    /\ emitted' = emitted + 1
    /\ ret' = [op |-> "emit", event |-> "head.end"]
    /\ UNCHANGED <<options, warnings, themes, listeners, instances, copies, made, cacheVars, emitterVars,
                   componentVars, exampleVars>>

\* the dispatcher calls the next callback of the event
RunCallback ==
    /\ queue # <<>>
    /\ queue' = Tail(queue)
    /\ LET cb == Head(queue) IN
          CASE cb.kind = "load" -> loadBootstrapEnd(cb.arg)
            [] cb.kind = "theme" -> themeBootstrapEnd
            [] cb.kind = "end" -> rendererEnd(cb.arg)
            [] OTHER -> headEnd(cb.arg)
    /\ UNCHANGED <<emitted, made, cacheVars, emitterVars,
                   componentVars, exampleVars>>

\* the user's configuration is read before bootstrapEnd is fired
HostInit ==
    /\ \E t \in UserThemes :
          options = [theme |-> t, lightHighlightTheme |-> None, darkHighlightTheme |-> None]
    /\ warnings = <<>>
    /\ themes = {}
    /\ listeners = <<>>
    /\ instances = 0
    /\ queue = <<>>
    /\ copies = <<>>
    /\ head = <<>>
    /\ emitted = 0

HostIdle ==
    /\ options = [theme |-> None, lightHighlightTheme |-> None, darkHighlightTheme |-> None]
    /\ warnings = <<>>
    /\ themes = {}
    /\ listeners = <<>>
    /\ instances = 0
    /\ queue = <<>>
    /\ copies = <<>>
    /\ head = <<>>
    /\ emitted = 0

(***************************************************************************)
(* TestClass                                                               *)
(***************************************************************************)
Names == {"", "a", "Hello", "TypeDoc"}
\* the optional initialCount argument: None when the caller leaves it out
Counts == {None} \cup {Some(n) : n \in 0..MaxCount}

\* (variant: accepts the empty name)
TestClassNewUnchecked(name, initialCount) ==
    [threw |-> None,
     instance |-> Some([name |-> name,
                        count |-> IF IsSome(initialCount) THEN Val(initialCount) ELSE 0])]

\* constructor(name, initialCount = 0)
TestClassNew(name, initialCount) ==
    IF name = ""
    THEN [threw |-> Some("Name cannot be empty"), instance |-> None]
    ELSE [threw |-> None,
          instance |-> Some([name |-> name,
                             count |-> IF IsSome(initialCount) THEN Val(initialCount) ELSE 0])]

TestClassConstructor ==
    /\ \E name \in Names, c \in Counts :
          /\ made' = TestClassNew(name, c)
          /\ ret' = [op |-> "new TestClass", name |-> name, initialCount |-> c]
    /\ UNCHANGED <<hostVars, cacheVars, emitterVars,
                   componentVars, exampleVars>>

\* static createDefault()
createDefault ==
    /\ made' = TestClassNew("Default", Some(0))
    /\ ret' = [op |-> "createDefault"]
    /\ UNCHANGED <<hostVars, cacheVars, emitterVars,
                   componentVars, exampleVars>>

\* increment(amount = 1) on the instance made last
increment ==
    /\ IsSome(made.instance)
    /\ \E amount \in {None} \cup {Some(n) : n \in -1..2} :
          LET a == IF IsSome(amount) THEN Val(amount) ELSE 1
              self == Val(made.instance)
          IN  /\ self.count + a <= MaxCount + 2
              /\ IF a <= 0
                 THEN /\ made' = made
                      /\ ret' = [op |-> "increment", threw |-> Some("Amount must be positive")]
                 ELSE /\ made' = [made EXCEPT !.instance = Some([self EXCEPT !.count = @ + a])]
                      /\ ret' = [op |-> "increment", threw |-> None, result |-> self.count + a]
    /\ UNCHANGED <<hostVars, cacheVars, emitterVars,
                   componentVars, exampleVars>>

\* greet(target = 'World') on the instance made last: `${this.name}, ${target}!`
greet ==
    /\ IsSome(made.instance)
    /\ \E target \in {None, Some("TypeDoc")} :
          ret' = [op |-> "greet",
                  result |-> <<Val(made.instance).name, ", ",
                               IF IsSome(target) THEN Val(target) ELSE "World", "!">>]
    /\ UNCHANGED <<made, hostVars, cacheVars, emitterVars,
                   componentVars, exampleVars>>

\* reset(value = 0) on the instance made last
reset ==
    /\ IsSome(made.instance)
    /\ \E value \in Counts :
          /\ made' = [made EXCEPT !.instance =
                         Some([Val(@) EXCEPT !.count = IF IsSome(value) THEN Val(value) ELSE 0])]
          /\ ret' = [op |-> "reset", value |-> value]
    /\ UNCHANGED <<hostVars, cacheVars, emitterVars,
                   componentVars, exampleVars>>

TestClassIdle == made = [threw |-> None, instance |-> None]

(***************************************************************************)
(* Cache                                                                   *)
(***************************************************************************)
Keys == {"a", "b", "c"}
Values == {"x", "yy"}
\* the ttl of an options argument: None when the caller gives none
TtlOptions == {None, Some(0), Some(1)}
\* the clock runs from 0 to MaxTime
MaxTime == MaxOps

\* options.x ?? dflt
Nullish(m, dflt) == IF IsSome(m) THEN Val(m) ELSE dflt

\* Map operations on the entries kept in insertion order
IndexOf(st, key) ==
    IF \E i \in 1..Len(st) : st[i].key = key
    THEN CHOOSE i \in 1..Len(st) : st[i].key = key
    ELSE 0
mapHas(st, key) == IndexOf(st, key) # 0
mapGet(st, key) == st[IndexOf(st, key)]
mapDelete(st, key) == SelectSeq(st, LAMBDA e : e.key # key)
mapSet(st, key, e) ==
    IF mapHas(st, key) THEN [st EXCEPT ![IndexOf(st, key)] = e] ELSE Append(st, e)

\* (variant: an entry counts as expired from its expiry time on)
isExpiredFromExpiry(e, t) == IsSome(e.expiresAt) /\ Val(e.expiresAt) # 0 /\ t >= Val(e.expiresAt)

\* entry.expiresAt && Date.now() > entry.expiresAt
isExpired(e, t) == IsSome(e.expiresAt) /\ Val(e.expiresAt) # 0 /\ t > Val(e.expiresAt)

\* JSON.stringify(value).length * 2 for a string value
estimateSize(value) == (Len(value) + 2) * 2
\* JSON.parse(JSON.stringify(value)) for a string value
clone(value) == value

\* the field the eviction policy compares
PolicyField(e, policy) ==
    CASE policy = "lru" -> e.lastAccessedAt
      [] policy = "lfu" -> e.hits
      [] OTHER -> e.createdAt

\* the loop of evict(): the first entry, in iteration order, that is
\* strictly smaller than the target so far replaces it
RECURSIVE evictScan(_, _, _, _)
evictScan(st, i, target, policy) ==
    IF i > Len(st) THEN target
    ELSE IF target = 0 \/ PolicyField(st[i], policy) < PolicyField(st[target], policy)
         THEN evictScan(st, i + 1, i, policy)
         ELSE evictScan(st, i + 1, target, policy)

\* evict(): the storage and the statistics it leaves
evict(st, sts, policy) ==
    IF Len(st) = 0 THEN [storage |-> st, stats |-> sts]
    ELSE LET target == evictScan(st, 1, 0, policy) IN
         [storage |-> mapDelete(st, st[target].key),
          stats |-> [sts EXCEPT !.evictions = @ + 1]]

\* (variant: a ttl of 0 falls back to the default, as with `||`)
setEntryTtlOr(key, value, ttlOpt) ==
    LET ttl == IF IsSome(ttlOpt) /\ Val(ttlOpt) # 0 THEN Val(ttlOpt) ELSE copts.defaultTtl IN
    [key |-> key,
     value |-> IF copts.cloneValues THEN clone(value) ELSE value,
     createdAt |-> now,
     lastAccessedAt |-> now,
     expiresAt |-> IF ttl > 0 THEN Some(now + ttl) ELSE None,
     hits |-> 0,
     size |-> estimateSize(value)]

\* the entry set(key, value, options) builds
setEntry(key, value, ttlOpt) ==
    LET ttl == Nullish(ttlOpt, copts.defaultTtl) IN
    [key |-> key,
     value |-> IF copts.cloneValues THEN clone(value) ELSE value,
     createdAt |-> now,
     lastAccessedAt |-> now,
     expiresAt |-> IF ttl > 0 THEN Some(now + ttl) ELSE None,
     hits |-> 0,
     size |-> estimateSize(value)]

\* set(key, value, options): the storage and the statistics it leaves
setResult(key, value, ttlOpt) ==
    LET ev == IF Len(storage) >= copts.maxSize /\ ~mapHas(storage, key)
              THEN evict(storage, stats, copts.evictionPolicy)
              ELSE [storage |-> storage, stats |-> stats]
    IN  [storage |-> mapSet(ev.storage, key, setEntry(key, value, ttlOpt)),
         stats |-> ev.stats]

\* get(key): the value it returns, the storage and the statistics it leaves
getResult(key) ==
    IF ~mapHas(storage, key)
    THEN [value |-> None, storage |-> storage, stats |-> [stats EXCEPT !.misses = @ + 1]]
    ELSE LET entry == mapGet(storage, key) IN
         IF isExpired(entry, now)
         THEN [value |-> None, storage |-> mapDelete(storage, key),
               stats |-> [stats EXCEPT !.misses = @ + 1]]
         ELSE [value |-> Some(IF copts.cloneValues THEN clone(entry.value) ELSE entry.value),
               storage |-> mapSet(storage, key,
                                  [entry EXCEPT !.lastAccessedAt = now, !.hits = @ + 1]),
               stats |-> [stats EXCEPT !.hits = @ + 1]]

CanCall == ops < limit
Called == ops' = ops + 1
Quiet == UNCHANGED <<hostVars, made, emitterVars, componentVars, exampleVars, copts, nextCleanup, callers, limit>>

Set ==
    /\ CanCall /\ Called
    /\ \E key \in callers, value \in Values, ttlOpt \in TtlOptions :
          LET r == setResult(key, value, ttlOpt) IN
          /\ storage' = r.storage
          /\ stats' = r.stats
          /\ written' = [written EXCEPT ![key] = Some(<<now, Nullish(ttlOpt, copts.defaultTtl)>>)]
          /\ ret' = [op |-> "set", key |-> key, value |-> value, ttl |-> ttlOpt]
    /\ UNCHANGED <<timer, pending, now>>
    /\ Quiet

Get ==
    /\ CanCall /\ Called
    /\ \E key \in callers :
          LET r == getResult(key) IN
          /\ storage' = r.storage
          /\ stats' = r.stats
          /\ ret' = [op |-> "get", key |-> key, result |-> r.value]
    /\ UNCHANGED <<timer, pending, now, written>>
    /\ Quiet

\* getOrSet(key, factory, options) up to `await factory()`
GetOrSetCall ==
    /\ CanCall /\ Called
    /\ pending = None
    /\ \E key \in callers, ttlOpt \in TtlOptions :
          LET r == getResult(key) IN
          /\ storage' = r.storage
          /\ stats' = r.stats
          /\ pending' = IF IsSome(r.value) THEN None ELSE Some([key |-> key, ttl |-> ttlOpt])
          /\ ret' = [op |-> "getOrSet", key |-> key, ttl |-> ttlOpt, result |-> r.value,
                     factoryCalled |-> ~IsSome(r.value)]
    /\ UNCHANGED <<timer, now, written>>
    /\ Quiet

\* (variant: stores the factory's value without passing the options on)
GetOrSetResumeNoOptions ==
    /\ IsSome(pending)
    /\ pending' = None
    /\ \E value \in Values :
          LET call == Val(pending)
              r == setResult(call.key, value, None)
          IN  /\ storage' = r.storage
              /\ stats' = r.stats
              /\ written' = [written EXCEPT ![call.key] =
                                Some(<<now, Nullish(None, copts.defaultTtl)>>)]
              /\ ret' = [op |-> "getOrSet resumed", key |-> call.key, ttl |-> call.ttl,
                         result |-> Some(value)]
    /\ UNCHANGED <<timer, now, ops>>
    /\ Quiet

\* getOrSet after the factory has produced its value
GetOrSetResume ==
    /\ IsSome(pending)
    /\ pending' = None
    /\ \E value \in Values :
          LET call == Val(pending)
              r == setResult(call.key, value, call.ttl)
          IN  /\ storage' = r.storage
              /\ stats' = r.stats
              /\ written' = [written EXCEPT ![call.key] =
                                Some(<<now, Nullish(call.ttl, copts.defaultTtl)>>)]
              /\ ret' = [op |-> "getOrSet resumed", key |-> call.key, ttl |-> call.ttl,
                         result |-> Some(value)]
    /\ UNCHANGED <<timer, now, ops>>
    /\ Quiet

\* getOrSet when the factory throws or its promise rejects
GetOrSetReject ==
    /\ IsSome(pending)
    /\ pending' = None
    /\ ret' = [op |-> "getOrSet rejected", key |-> Val(pending).key, ttl |-> Val(pending).ttl]
    /\ UNCHANGED <<storage, stats, timer, now, written, ops>>
    /\ Quiet

Has ==
    /\ CanCall /\ Called
    /\ \E key \in callers :
          IF ~mapHas(storage, key)
          THEN /\ storage' = storage
               /\ ret' = [op |-> "has", key |-> key, result |-> FALSE]
          ELSE IF isExpired(mapGet(storage, key), now)
               THEN /\ storage' = mapDelete(storage, key)
                    /\ ret' = [op |-> "has", key |-> key, result |-> FALSE]
               ELSE /\ storage' = storage
                    /\ ret' = [op |-> "has", key |-> key, result |-> TRUE]
    /\ UNCHANGED <<stats, timer, pending, now, written>>
    /\ Quiet

Delete ==
    /\ CanCall /\ Called
    /\ \E key \in callers :
          /\ storage' = mapDelete(storage, key)
          /\ ret' = [op |-> "delete", key |-> key, result |-> mapHas(storage, key)]
    /\ UNCHANGED <<stats, timer, pending, now, written>>
    /\ Quiet

Clear ==
    /\ CanCall /\ Called
    /\ storage' = <<>>
    /\ ret' = [op |-> "clear"]
    /\ UNCHANGED <<stats, timer, pending, now, written>>
    /\ Quiet

\* touch(key, ttl)
Touch ==
    /\ CanCall /\ Called
    /\ \E key \in callers, ttlOpt \in TtlOptions :
          IF ~mapHas(storage, key)
          THEN /\ UNCHANGED <<storage, written>>
               /\ ret' = [op |-> "touch", key |-> key, ttl |-> ttlOpt, result |-> FALSE]
          ELSE LET newTtl == Nullish(ttlOpt, copts.defaultTtl) IN
               /\ storage' = mapSet(storage, key,
                     [mapGet(storage, key) EXCEPT
                         !.expiresAt = IF newTtl > 0 THEN Some(now + newTtl) ELSE None])
               /\ written' = [written EXCEPT ![key] = None]
               /\ ret' = [op |-> "touch", key |-> key, ttl |-> ttlOpt, result |-> TRUE]
    /\ UNCHANGED <<stats, timer, pending, now>>
    /\ Quiet

\* destroy()
Destroy ==
    /\ CanCall /\ Called
    /\ timer' = FALSE
    /\ storage' = <<>>
    /\ ret' = [op |-> "destroy"]
    /\ UNCHANGED <<stats, pending, now, written>>
    /\ Quiet

\* the setInterval callback: cleanup()
Cleanup ==
    /\ timer /\ now = nextCleanup
    /\ storage' = SelectSeq(storage, LAMBDA e : ~isExpired(e, now))
    /\ nextCleanup' = now + (IF copts.cleanupInterval < 1 THEN 1 ELSE copts.cleanupInterval)
    /\ ret' = [op |-> "cleanup"]
    /\ UNCHANGED <<hostVars, made, emitterVars, componentVars, exampleVars, copts, stats, timer, pending, now, callers,
                   written, ops, limit>>

\* a millisecond passes; a running timer fires when it is due
Tick ==
    /\ now < MaxTime
    /\ timer => now < nextCleanup
    /\ now' = now + 1
    /\ ret' = [op |-> "tick"]
    /\ UNCHANGED <<hostVars, made, emitterVars, componentVars, exampleVars, copts, storage, stats, timer, nextCleanup, pending,
                   callers, written, ops, limit>>

\* new Cache(options)
CacheConstructor(options_) ==
    /\ copts = [maxSize |-> Nullish(options_.maxSize, 1000),
                defaultTtl |-> Nullish(options_.defaultTtl, 0),
                evictionPolicy |-> Nullish(options_.evictionPolicy, "lru"),
                cloneValues |-> Nullish(options_.cloneValues, FALSE),
                cleanupInterval |-> Nullish(options_.cleanupInterval, 60000)]
    /\ storage = <<>>
    /\ stats = [hits |-> 0, misses |-> 0, evictions |-> 0]
    /\ timer = (copts.defaultTtl > 0 \/ copts.cleanupInterval > 0)
    /\ nextCleanup = IF copts.cleanupInterval < 1 THEN 1 ELSE copts.cleanupInterval
    /\ pending = None
    /\ now = 0
    /\ written = [k \in Keys |-> None]
    /\ ops = 0

\* caches built with every combination of the given option values
CacheInit(maxSizes, defaultTtls, policies, cloneFlags, intervals) ==
    \E ms \in maxSizes, dt \in defaultTtls, ep \in policies, cv \in cloneFlags, ci \in intervals :
       CacheConstructor([maxSize |-> ms, defaultTtl |-> dt, evictionPolicy |-> ep,
                         cloneValues |-> cv, cleanupInterval |-> ci])

CacheIdle ==
    /\ CacheConstructor([maxSize |-> None, defaultTtl |-> None, evictionPolicy |-> None,
                         cloneValues |-> None, cleanupInterval |-> None])
    /\ callers = {}
    /\ limit = 0

(***************************************************************************)
(* createNamespacedCache                                                   *)
(***************************************************************************)
Namespaces == {"a", "a:b"}
NamespacedKeys == {"c", "b:c"}

\* const prefix = `${namespace}:`
prefix(namespace) == namespace \o ":"
\* `${prefix}${key}`
prefixed(namespace, key) == prefix(namespace) \o key

\* the wrappers of createNamespacedCache(cache, namespace); the client of a
\* namespace stores the name of its namespace as the value, so that every
\* stored entry tells through which wrapper it was written
NamespacedSet ==
    /\ CanCall /\ Called
    /\ \E namespace \in Namespaces, key \in NamespacedKeys, ttlOpt \in TtlOptions :
          LET r == setResult(prefixed(namespace, key), namespace, ttlOpt) IN
          /\ storage' = r.storage
          /\ stats' = r.stats
          /\ ret' = [op |-> "namespaced set", namespace |-> namespace, key |-> key,
                     ttl |-> ttlOpt]
    /\ UNCHANGED <<timer, pending, now, written>>
    /\ Quiet

NamespacedGet ==
    /\ CanCall /\ Called
    /\ \E namespace \in Namespaces, key \in NamespacedKeys :
          LET r == getResult(prefixed(namespace, key)) IN
          /\ storage' = r.storage
          /\ stats' = r.stats
          /\ ret' = [op |-> "namespaced get", namespace |-> namespace, key |-> key,
                     result |-> r.value]
    /\ UNCHANGED <<timer, pending, now, written>>
    /\ Quiet

NamespacedDelete ==
    /\ CanCall /\ Called
    /\ \E namespace \in Namespaces, key \in NamespacedKeys :
          /\ storage' = mapDelete(storage, prefixed(namespace, key))
          /\ ret' = [op |-> "namespaced delete", namespace |-> namespace, key |-> key,
                     result |-> mapHas(storage, prefixed(namespace, key))]
    /\ UNCHANGED <<stats, timer, pending, now, written>>
    /\ Quiet

NamespacedHas ==
    /\ CanCall /\ Called
    /\ \E namespace \in Namespaces, key \in NamespacedKeys :
          LET full == prefixed(namespace, key) IN
          IF ~mapHas(storage, full)
          THEN /\ storage' = storage
               /\ ret' = [op |-> "namespaced has", namespace |-> namespace, key |-> key,
                          result |-> FALSE]
          ELSE IF isExpired(mapGet(storage, full), now)
               THEN /\ storage' = mapDelete(storage, full)
                    /\ ret' = [op |-> "namespaced has", namespace |-> namespace, key |-> key,
                               result |-> FALSE]
               ELSE /\ storage' = storage
                    /\ ret' = [op |-> "namespaced has", namespace |-> namespace, key |-> key,
                               result |-> TRUE]
    /\ UNCHANGED <<stats, timer, pending, now, written>>
    /\ Quiet

(***************************************************************************)
(* EventEmitter                                                            *)
(***************************************************************************)
EventNames == {"e", "f"}
Wildcard == "*"
EventData == {"d1", "d2"}

\* the handlers a client registers, by what they do when they are invoked
Returns == [kind |-> "return", arg |-> None]
Throws == [kind |-> "throw", arg |-> None]
\* calls emit(event, data) the first time it is invoked
Emits(event) == [kind |-> "emit", arg |-> Some(event)]
Unsubscribes(id) == [kind |-> "unsubscribe", arg |-> Some(id)]
\* the handler waitFor registers
Resolves == [kind |-> "resolve", arg |-> None]

\* listener.options.priority ?? 0
priorityOf(l) == Nullish(l.options.priority, 0)

\* Array.prototype.sort with (a, b) => priority(b) - priority(a) is stable:
\* an element goes behind the elements that do not compare after it
sortInsert(sorted, l) ==
    LET k == Cardinality({i \in 1..Len(sorted) : priorityOf(sorted[i]) >= priorityOf(l)}) IN
    SubSeq(sorted, 1, k) \o <<l>> \o SubSeq(sorted, k + 1, Len(sorted))
RECURSIVE sortByPriority(_)
sortByPriority(ls) ==
    IF ls = <<>> THEN <<>>
    ELSE sortInsert(sortByPriority(SubSeq(ls, 1, Len(ls) - 1)), ls[Len(ls)])

\* (variant: the wildcard listeners are spread first)
allListenersWildcardFirst(event) ==
    sortByPriority(emitterListeners[Wildcard] \o emitterListeners[event])

\* [...eventListeners, ...wildcardListeners].sort(...)
allListeners(event) ==
    sortByPriority(emitterListeners[event] \o emitterListeners[Wildcard])

\* (variant: leaves the listener in the list)
removeListenerByIdKeeps(ls, event, id) == ls

\* removeListenerById(event, id) on the lists ls
removeListenerById(ls, event, id) ==
    [ls EXCEPT ![event] = SelectSeq(@, LAMBDA l : l.id # id)]

\* for (const listener of toRemove) this.removeListenerById(event, listener.id)
RECURSIVE removeListeners(_, _, _)
removeListeners(ls, event, ids) ==
    IF ids = <<>> THEN ls
    ELSE removeListeners(removeListenerById(ls, event, Head(ids)), event, Tail(ids))

\* subscription.unsubscribe() of listener id: the lists and subscriptions it leaves
unsubscribeResult(id) ==
    IF subscriptions[id + 1].isActive
    THEN [listeners |-> removeListenerById(emitterListeners, subscriptions[id + 1].event, id),
          subscriptions |-> [subscriptions EXCEPT ![id + 1].isActive = FALSE]]
    ELSE [listeners |-> emitterListeners, subscriptions |-> subscriptions]

\* unsubscribe() of listener id has returned: the emits started by then
unsubscribeReturned(id) ==
    IF unsubscribedAt[id + 1] = None
    THEN [unsubscribedAt EXCEPT ![id + 1] = Some(emits)]
    ELSE unsubscribedAt

\* the rest of the program is not touched by the emitter
EmitterQuiet ==
    UNCHANGED <<hostVars, made, componentVars, exampleVars, copts, storage, stats, timer, nextCleanup,
                pending, now, callers, written, limit>>

\* a call from outside any handler
TopLevelCall == stack = <<>> /\ CanCall /\ Called

\* addListener(event, handler, options)
addListener(event, handler, options_) ==
    /\ warned' = IF maxListeners > 0 /\ Len(emitterListeners[event]) >= maxListeners
                 THEN warned + 1 ELSE warned
    /\ nextListenerId' = nextListenerId + 1
    /\ emitterListeners' = [emitterListeners EXCEPT ![event] =
           Append(@, [handler |-> handler, options |-> options_, id |-> nextListenerId])]
    /\ subscriptions' = Append(subscriptions, [event |-> event, isActive |-> TRUE])
    /\ invoked' = Append(invoked, 0)
    /\ unsubscribedAt' = Append(unsubscribedAt, None)

\* setMaxListeners(max)
setMaxListeners(maxes) ==
    /\ TopLevelCall
    /\ \E max \in maxes :
          /\ maxListeners' = max
          /\ ret' = [op |-> "setMaxListeners", max |-> max]
    /\ UNCHANGED <<emitterListeners, nextListenerId, subscriptions, stack, awaiting, waiter,
                   warned, invoked, unsubscribedAt, emits>>
    /\ EmitterQuiet

\* on(event, handler, options); an options.once that is not given counts as false
on(events, handlers, onces, priorities) ==
    /\ TopLevelCall
    /\ \E event \in events, handler \in handlers, o \in onces, priority \in priorities :
          /\ addListener(event, handler, [once |-> o, priority |-> priority])
          /\ ret' = [op |-> "on", event |-> event, id |-> nextListenerId,
                     before |-> Len(emitterListeners[event])]
    /\ UNCHANGED <<maxListeners, stack, awaiting, waiter, emits>>
    /\ EmitterQuiet

\* once(event, handler, options)
once(events, handlers, priorities) ==
    /\ TopLevelCall
    /\ \E event \in events, handler \in handlers, priority \in priorities :
          /\ addListener(event, handler, [once |-> TRUE, priority |-> priority])
          /\ ret' = [op |-> "once", event |-> event, id |-> nextListenerId,
                     before |-> Len(emitterListeners[event])]
    /\ UNCHANGED <<maxListeners, stack, awaiting, waiter, emits>>
    /\ EmitterQuiet

\* onAny(handler, options)
onAny(handlers, onces, priorities) ==
    /\ TopLevelCall
    /\ \E handler \in handlers, o \in onces, priority \in priorities :
          /\ addListener(Wildcard, handler, [once |-> o, priority |-> priority])
          /\ ret' = [op |-> "onAny", event |-> Wildcard, id |-> nextListenerId,
                     before |-> Len(emitterListeners[Wildcard])]
    /\ UNCHANGED <<maxListeners, stack, awaiting, waiter, emits>>
    /\ EmitterQuiet

\* subscription.unsubscribe() called from outside any handler
unsubscribe ==
    /\ TopLevelCall
    /\ \E id \in 0..(nextListenerId - 1) :
          LET r == unsubscribeResult(id) IN
          /\ emitterListeners' = r.listeners
          /\ subscriptions' = r.subscriptions
          /\ unsubscribedAt' = unsubscribeReturned(id)
          /\ ret' = [op |-> "unsubscribe", id |-> id,
                     wasActive |-> subscriptions[id + 1].isActive]
    /\ UNCHANGED <<nextListenerId, maxListeners, stack, awaiting, waiter, warned, invoked, emits>>
    /\ EmitterQuiet

\* the activation of emit(event, data) or emitAsync(event, data): the sorted
\* copy it iterates over, the position of the loop, toRemove, and what the
\* call saw and did (the two lists at the call, the listeners invoked so far)
newFrame(event, data, async) ==
    [event |-> event, data |-> data, async |-> async,
     allListeners |-> allListeners(event), index |-> 1, toRemove |-> <<>>,
     serial |-> emits + 1,
     eventListeners |-> emitterListeners[event],
     wildcardListeners |-> emitterListeners[Wildcard],
     done |-> <<>>]

Top == stack[Len(stack)]
Current == Top.allListeners[Top.index]
InLoop == stack # <<>> /\ Top.index <= Len(Top.allListeners)
setTop(f) == [stack EXCEPT ![Len(stack)] = f]

\* the handler is being called: it counts as invoked
called(f) == [f EXCEPT !.done = Append(@, f.allListeners[f.index].id)]
\* the handler has returned: `if (listener.options.once) toRemove.push(listener)`
returned(f) ==
    [f EXCEPT !.index = @ + 1,
              !.toRemove = IF f.allListeners[f.index].options.once
                           THEN Append(@, f.allListeners[f.index].id) ELSE @]

Invoke == invoked' = [invoked EXCEPT ![Current.id + 1] = @ + 1]

\* emit(event, data) up to the loop over allListeners
emit(events) ==
    /\ TopLevelCall
    /\ \E event \in events, data \in EventData :
          LET f == newFrame(event, data, FALSE) IN
          /\ emits' = emits + 1
          /\ IF f.allListeners = <<>>
             THEN /\ stack' = stack
                  /\ ret' = [op |-> "emit", event |-> event, result |-> FALSE, frame |-> f]
             ELSE /\ stack' = <<f>>
                  /\ ret' = [op |-> "emit called", event |-> event]
    /\ UNCHANGED <<emitterListeners, nextListenerId, maxListeners, subscriptions, awaiting,
                   waiter, warned, invoked, unsubscribedAt>>
    /\ EmitterQuiet

\* emitAsync(event, data) up to the loop over allListeners
emitAsync(events) ==
    /\ TopLevelCall
    /\ \E event \in events, data \in EventData :
          LET f == newFrame(event, data, TRUE) IN
          /\ emits' = emits + 1
          /\ IF f.allListeners = <<>>
             THEN /\ stack' = stack
                  /\ ret' = [op |-> "emitAsync", event |-> event, result |-> FALSE, frame |-> f]
             ELSE /\ stack' = <<f>>
                  /\ ret' = [op |-> "emitAsync called", event |-> event]
    /\ UNCHANGED <<emitterListeners, nextListenerId, maxListeners, subscriptions, awaiting,
                   waiter, warned, invoked, unsubscribedAt>>
    /\ EmitterQuiet

\* the loop calls a handler that returns
HandlerReturns ==
    /\ InLoop /\ Current.handler.kind = "return"
    /\ Invoke
    /\ stack' = setTop(returned(called(Top)))
    /\ ret' = [op |-> "handler", id |-> Current.id, serial |-> Top.serial]
    /\ UNCHANGED <<emitterListeners, nextListenerId, maxListeners, subscriptions, awaiting,
                   waiter, warned, unsubscribedAt, emits, ops>>
    /\ EmitterQuiet

\* the loop calls a handler that throws: the exception leaves every emit in
\* progress (no handler catches it), before toRemove is looked at
HandlerThrows ==
    /\ InLoop /\ Current.handler.kind = "throw"
    /\ Invoke
    /\ stack' = <<>>
    /\ ret' = [op |-> "emit threw", id |-> Current.id, serial |-> Top.serial,
               frame |-> called(Top)]
    /\ UNCHANGED <<emitterListeners, nextListenerId, maxListeners, subscriptions, awaiting,
                   waiter, warned, unsubscribedAt, emits, ops>>
    /\ EmitterQuiet

\* the loop calls a handler that, the first time it is invoked, calls
\* emit(event, data) itself, and that returns at once from then on
HandlerEmits ==
    /\ InLoop /\ Current.handler.kind = "emit"
    /\ Invoke
    /\ IF invoked[Current.id + 1] > 0
       THEN /\ emits' = emits
            /\ stack' = setTop(returned(called(Top)))
       ELSE /\ emits' = emits + 1
            /\ LET f == newFrame(Val(Current.handler.arg), Top.data, FALSE) IN
               IF f.allListeners = <<>>
               THEN stack' = setTop(returned(called(Top)))
               ELSE stack' = Append(setTop(called(Top)), f)
    /\ ret' = [op |-> "handler", id |-> Current.id, serial |-> Top.serial]
    /\ UNCHANGED <<emitterListeners, nextListenerId, maxListeners, subscriptions, awaiting,
                   waiter, warned, unsubscribedAt, ops>>
    /\ EmitterQuiet

\* the loop calls a handler that calls unsubscribe() on a subscription
HandlerUnsubscribes ==
    /\ InLoop /\ Current.handler.kind = "unsubscribe"
    /\ Invoke
    /\ LET id == Val(Current.handler.arg)
           r == unsubscribeResult(id)
       IN  /\ emitterListeners' = r.listeners
           /\ subscriptions' = r.subscriptions
           /\ unsubscribedAt' = unsubscribeReturned(id)
    /\ stack' = setTop(returned(called(Top)))
    /\ ret' = [op |-> "handler", id |-> Current.id, serial |-> Top.serial]
    /\ UNCHANGED <<nextListenerId, maxListeners, awaiting, waiter, warned, emits, ops>>
    /\ EmitterQuiet

\* the loop calls the handler of waitFor:
\* `if (timeoutId) clearTimeout(timeoutId); resolve(data)`
HandlerResolves ==
    /\ InLoop /\ Current.handler.kind = "resolve"
    /\ Invoke
    /\ waiter' = Some([Val(waiter) EXCEPT
                          !.timeoutId = FALSE,
                          !.state = IF @ = "pending" THEN "resolved" ELSE @,
                          !.value = IF Val(waiter).state = "pending" THEN Some(Top.data) ELSE @,
                          !.serial = IF Val(waiter).state = "pending" THEN Some(Top.serial) ELSE @])
    /\ stack' = setTop(returned(called(Top)))
    /\ ret' = [op |-> "handler", id |-> Current.id, serial |-> Top.serial]
    /\ UNCHANGED <<emitterListeners, nextListenerId, maxListeners, subscriptions, awaiting,
                   warned, unsubscribedAt, emits, ops>>
    /\ EmitterQuiet

\* emit after its loop: the one-time listeners are removed and it returns
\* true; a handler that made this call returns to the loop that called it
EmitReturns ==
    /\ stack # <<>> /\ ~InLoop /\ ~Top.async
    /\ emitterListeners' = removeListeners(emitterListeners, Top.event, Top.toRemove)
    /\ stack' = IF Len(stack) = 1 THEN <<>>
                ELSE LET rest == SubSeq(stack, 1, Len(stack) - 1) IN
                     [rest EXCEPT ![Len(rest)] = returned(@)]
    /\ ret' = [op |-> "emit", event |-> Top.event, result |-> TRUE, frame |-> Top]
    /\ UNCHANGED <<nextListenerId, maxListeners, subscriptions, awaiting, waiter, warned,
                   invoked, unsubscribedAt, emits, ops>>
    /\ EmitterQuiet

\* emitAsync after its loop: `await Promise.all(promises)` suspends it
EmitAsyncAwaits ==
    /\ stack # <<>> /\ ~InLoop /\ Top.async
    /\ awaiting' = Append(awaiting, Top)
    /\ stack' = <<>>
    /\ ret' = [op |-> "emitAsync awaits", event |-> Top.event]
    /\ UNCHANGED <<emitterListeners, nextListenerId, maxListeners, subscriptions, waiter,
                   warned, invoked, unsubscribedAt, emits, ops>>
    /\ EmitterQuiet

\* emitAsync resumed after the await: the one-time listeners are removed
EmitAsyncResumes ==
    /\ stack = <<>> /\ awaiting # <<>>
    /\ emitterListeners' =
           removeListeners(emitterListeners, Head(awaiting).event, Head(awaiting).toRemove)
    /\ awaiting' = Tail(awaiting)
    /\ ret' = [op |-> "emitAsync", event |-> Head(awaiting).event, result |-> TRUE,
               frame |-> Head(awaiting)]
    /\ UNCHANGED <<nextListenerId, maxListeners, subscriptions, stack, waiter, warned,
                   invoked, unsubscribedAt, emits, ops>>
    /\ EmitterQuiet

\* waitFor(event, timeout): timeout is <<>> when the caller gives none
waitFor(events, timeouts) ==
    /\ TopLevelCall
    /\ waiter = None
    /\ \E event \in events, timeout \in timeouts :
          /\ addListener(event, Resolves, [once |-> TRUE, priority |-> None])
          /\ waiter' = Some([id |-> nextListenerId, event |-> event, state |-> "pending",
                             value |-> None, serial |-> None, timeoutId |-> IsSome(timeout)])
          /\ ret' = [op |-> "waitFor", event |-> event, id |-> nextListenerId,
                     timeout |-> timeout]
    /\ UNCHANGED <<maxListeners, stack, awaiting, emits>>
    /\ EmitterQuiet

\* the setTimeout callback of waitFor: `subscription.unsubscribe(); reject(...)`
Timeout ==
    /\ stack = <<>>
    /\ IsSome(waiter) /\ Val(waiter).timeoutId
    /\ LET id == Val(waiter).id
           r == unsubscribeResult(id)
       IN  /\ emitterListeners' = r.listeners
           /\ subscriptions' = r.subscriptions
           /\ unsubscribedAt' = unsubscribeReturned(id)
    /\ waiter' = Some([Val(waiter) EXCEPT
                          !.timeoutId = FALSE,
                          !.state = IF @ = "pending" THEN "rejected" ELSE @])
    /\ ret' = [op |-> "timeout", id |-> Val(waiter).id]
    /\ UNCHANGED <<nextListenerId, maxListeners, stack, awaiting, warned, invoked, emits, ops>>
    /\ EmitterQuiet

\* new EventEmitter()
EventEmitterConstructor ==
    /\ emitterListeners = [k \in EventNames \cup {Wildcard} |-> <<>>]
    /\ nextListenerId = 0
    /\ maxListeners = 0
    /\ subscriptions = <<>>
    /\ stack = <<>>
    /\ awaiting = <<>>
    /\ waiter = None
    /\ warned = 0
    /\ invoked = <<>>
    /\ unsubscribedAt = <<>>
    /\ emits = 0

EmitterIdle == EventEmitterConstructor

(***************************************************************************)
(* Component                                                               *)
(***************************************************************************)
\* what a lifecycle hook of the subclass does: it is not defined, it
\* returns, it throws, or it calls this.mount() (the first time it runs) or
\* this.unmount()
HookBehaviours == {"absent", "returns", "throws", "mount", "unmount"}

\* where a mount() call that passed its check stands: about to call
\* onBeforeMount ("onBeforeMount"), inside it ("inBeforeMount"), about to set
\* _state ("set"), about to call onMounted ("onMounted"), inside it ("inMounted")
TopMount == mounting[Len(mounting)]
setPc(pc) == [mounting EXCEPT ![Len(mounting)] = pc]
AtHook == mounting # <<>> /\ TopMount \in {"onBeforeMount", "onMounted"}

\* the innermost mount() returns to the hook that called it, and the hook
\* returns: after onBeforeMount comes `this._state = Mounted`, after
\* onMounted that mount() returns as well
RECURSIVE mountReturns(_)
mountReturns(st) ==
    LET rest == SubSeq(st, 1, Len(st) - 1) IN
    IF rest = <<>> THEN <<>>
    ELSE IF rest[Len(rest)] = "inBeforeMount" THEN [rest EXCEPT ![Len(rest)] = "set"]
    ELSE mountReturns(rest)

\* the hook about to be called has returned
hookReturns ==
    IF TopMount = "onBeforeMount" THEN setPc("set") ELSE mountReturns(mounting)

HookRan == ran' = [ran EXCEPT ![TopMount] = @ + 1]

ComponentQuiet == UNCHANGED <<hostVars, made, cacheVars, emitterVars, exampleVars>>

\* mount() called from outside any hook, up to the call of onBeforeMount
mount ==
    /\ mounting = <<>> /\ ops < limit
    /\ IF componentState # "creating"
       THEN /\ mounting' = mounting
            /\ ret' = [op |-> "mount", threw |-> Some("Component can only be mounted once")]
       ELSE /\ mounting' = <<"onBeforeMount">>
            /\ ret' = [op |-> "mount called", threw |-> None]
    /\ UNCHANGED <<componentState, hooks, ran, entered>>
    /\ UNCHANGED <<hostVars, made, copts, storage, stats, timer, nextCleanup, pending, now,
                   callers, written, limit, emitterVars, exampleVars>>
    /\ ops' = ops + 1

\* unmount() called from outside any hook; the subclass defines neither
\* onBeforeUnmount nor onUnmounted and the component has no children
unmount ==
    /\ mounting = <<>> /\ ops < limit
    /\ componentState' = "destroyed"
    /\ ret' = [op |-> "unmount", threw |-> None]
    /\ UNCHANGED <<hooks, mounting, ran, entered>>
    /\ UNCHANGED <<hostVars, made, copts, storage, stats, timer, nextCleanup, pending, now,
                   callers, written, limit, emitterVars, exampleVars>>
    /\ ops' = ops + 1

\* this.onBeforeMount?.() or this.onMounted?.() when the hook is not defined
HookAbsent ==
    /\ AtHook /\ hooks[TopMount] = "absent"
    /\ mounting' = hookReturns
    /\ ret' = [op |-> IF mounting' = <<>> THEN "mount" ELSE "hook", threw |-> None]
    /\ UNCHANGED <<componentState, hooks, ran, entered>>
    /\ ComponentQuiet

\* the hook runs and returns
HookReturns ==
    /\ AtHook
    /\ hooks[TopMount] = "returns" \/ (hooks[TopMount] = "mount" /\ ran[TopMount] > 0)
    /\ HookRan
    /\ mounting' = hookReturns
    /\ ret' = [op |-> IF mounting' = <<>> THEN "mount" ELSE "hook", threw |-> None]
    /\ UNCHANGED <<componentState, hooks, entered>>
    /\ ComponentQuiet

\* the hook throws: the exception leaves every mount() in progress
HookThrows ==
    /\ AtHook /\ hooks[TopMount] = "throws"
    /\ HookRan
    /\ mounting' = <<>>
    /\ ret' = [op |-> "mount", threw |-> Some("hook")]
    /\ UNCHANGED <<componentState, hooks, entered>>
    /\ ComponentQuiet

\* the hook calls this.mount(): the call throws unless _state is Creating
HookMounts ==
    /\ AtHook /\ hooks[TopMount] = "mount" /\ ran[TopMount] = 0
    /\ HookRan
    /\ IF componentState # "creating"
       THEN /\ mounting' = <<>>
            /\ ret' = [op |-> "mount", threw |-> Some("Component can only be mounted once")]
       ELSE /\ mounting' = Append(setPc(IF TopMount = "onBeforeMount" THEN "inBeforeMount"
                                        ELSE "inMounted"), "onBeforeMount")
            /\ ret' = [op |-> "mount called", threw |-> None]
    /\ UNCHANGED <<componentState, hooks, entered>>
    /\ ComponentQuiet

\* the hook calls this.unmount() and returns
HookUnmounts ==
    /\ AtHook /\ hooks[TopMount] = "unmount"
    /\ HookRan
    /\ componentState' = "destroyed"
    /\ mounting' = hookReturns
    /\ ret' = [op |-> IF mounting' = <<>> THEN "mount" ELSE "hook", threw |-> None]
    /\ UNCHANGED <<hooks, entered>>
    /\ ComponentQuiet

\* this._state = ComponentState.Mounted
SetMounted ==
    /\ mounting # <<>> /\ TopMount = "set"
    /\ componentState' = "mounted"
    /\ entered' = IF componentState # "mounted" THEN entered + 1 ELSE entered
    /\ mounting' = setPc("onMounted")
    /\ ret' = [op |-> "set", threw |-> None]
    /\ UNCHANGED <<hooks, ran>>
    /\ ComponentQuiet

\* new Subclass(props), for a subclass with the given hooks
ComponentConstructor(onBeforeMount, onMounted) ==
    /\ componentState = "creating"
    /\ hooks = [onBeforeMount |-> onBeforeMount, onMounted |-> onMounted]
    /\ mounting = <<>>
    /\ ran = [onBeforeMount |-> 0, onMounted |-> 0]
    /\ entered = 0

ComponentIdle == ComponentConstructor("absent", "absent")

(***************************************************************************)
(* Component trees: addChild, removeChild, on and the recursive unmount    *)
(***************************************************************************)
\* the components and the event handlers of a run
ComponentIds == {"a", "b", "c"}
Handlers == {"h1"}

\* new Subclass(props) for every component of the run: _state is Creating,
\* eventHandlers and children are empty, parent is undefined
TreeConstructor ==
    tree = [id \in ComponentIds |->
               [state |-> "creating", children |-> <<>>, eventHandlers |-> {},
                parent |-> None]]

indexOf(seq, x) ==
    IF \E i \in 1..Len(seq) : seq[i] = x
    THEN CHOOSE i \in 1..Len(seq) : seq[i] = x /\ \A j \in 1..(i - 1) : seq[j] # x
    ELSE 0

splice(seq, i) == SubSeq(seq, 1, i - 1) \o SubSeq(seq, i + 1, Len(seq))

\* the components reachable from the components of `frontier` through
\* children lists, those of `seen` and `frontier` included
RECURSIVE reachableFrom(_, _, _)
reachableFrom(t, seen, frontier) ==
    IF frontier = {} THEN seen
    ELSE LET next == UNION {{t[p].children[i] : i \in 1..Len(t[p].children)} : p \in frontier}
         IN  reachableFrom(t, seen \cup frontier, next \ (seen \cup frontier))
Reachable(t, id) == reachableFrom(t, {}, {id})

\* unmount() of component id and, through `for (const child of
\* this.children) child.unmount()`, of its children in order; the subclasses
\* define neither onBeforeUnmount nor onUnmounted.  `path` holds the
\* components whose unmount() is in progress (their _state is Destroying):
\* a call that reaches one of them again repeats the same calls without end,
\* and the engine ends it with a RangeError that leaves every call in
\* progress.  The result is the tree and whether the call threw.
RECURSIVE unmountFrom(_, _, _), unmountChildren(_, _, _, _)
unmountFrom(t, id, path) ==
    IF t[id].state = "destroyed" THEN [t |-> t, threw |-> FALSE]
    ELSE LET destroying == [t EXCEPT ![id].state = "destroying"] IN
         IF id \in path THEN [t |-> destroying, threw |-> TRUE]
         ELSE LET done == unmountChildren(destroying, t[id].children, 1, path \cup {id}) IN
              IF done.threw THEN done
              ELSE [t |-> [done.t EXCEPT ![id].children = <<>>,
                                         ![id].eventHandlers = {},
                                         ![id].state = "destroyed"],
                    threw |-> FALSE]
unmountChildren(t, children, i, path) ==
    IF i > Len(children) THEN [t |-> t, threw |-> FALSE]
    ELSE LET done == unmountFrom(t, children[i], path) IN
         IF done.threw THEN done ELSE unmountChildren(done.t, children, i + 1, path)

TreeQuiet ==
    /\ ops < limit /\ ops' = ops + 1
    /\ UNCHANGED <<hostVars, made, copts, storage, stats, timer, nextCleanup, pending, now,
                   callers, written, limit, emitterVars, componentVars, retrying, debounced,
                   given, client>>

\* parent.addChild(child)
addChild(parent, child) ==
    /\ tree' = [tree EXCEPT ![child].parent = Some(parent),
                            ![parent].children = Append(tree[parent].children, child)]
    /\ ret' = [op |-> "addChild", id |-> parent, arg |-> child, before |-> tree,
               result |-> None, threw |-> FALSE]
    /\ TreeQuiet

\* parent.removeChild(child)
removeChild(parent, child) ==
    LET index == indexOf(tree[parent].children, child) IN
    /\ tree' = IF index # 0
               THEN [tree EXCEPT ![parent].children = splice(tree[parent].children, index),
                                 ![child].parent = None]
               ELSE tree
    /\ ret' = [op |-> "removeChild", id |-> parent, arg |-> child, before |-> tree,
               result |-> Some(index # 0), threw |-> FALSE]
    /\ TreeQuiet

\* component.on(event, handler), for one event
componentOn(id, handler) ==
    /\ tree' = [tree EXCEPT ![id].eventHandlers = @ \cup {handler}]
    /\ ret' = [op |-> "on", id |-> id, arg |-> handler, before |-> tree,
               result |-> None, threw |-> FALSE]
    /\ TreeQuiet

\* component.unmount()
componentUnmount(id) ==
    LET done == unmountFrom(tree, id, {}) IN
    /\ tree' = done.t
    /\ ret' = [op |-> "unmount", id |-> id, arg |-> id, before |-> tree,
               result |-> None, threw |-> done.threw]
    /\ TreeQuiet

(***************************************************************************)
(* retry(attempts, delay): the replacement of a decorated async method     *)
(***************************************************************************)
Attempts == 0..MaxAttempts
Delays == {0, 2}

\* what the original method does when attempt k invokes it
ValueOf(k) == <<"value", k>>
ErrorOf(k) == <<"error", k>>

\* retry(attempts, delay) applied to a method: nothing has been called yet.
\* `time` is the clock of the run, `attempt` and `lastError` are the locals
\* of the call, `invokedAt` the times at which the call invoked the original,
\* `settled` the outcome of the call's promise and `settledAt` its time.
RetryDecorated(attempts, delay) ==
    retrying = [attempts |-> attempts, delay |-> delay, pc |-> "idle", time |-> 0,
                attempt |-> 0, lastError |-> None, invokedAt |-> <<>>, outcomes |-> <<>>,
                warned |-> 0, settled |-> None, settledAt |-> 0]

RetryQuiet ==
    UNCHANGED <<hostVars, made, cacheVars, emitterVars, componentVars, tree, debounced, given,
                client>>

\* `for (...; attempt <= attempts; ...)` is about to test its condition with
\* `attempt` at k: the loop runs the next attempt, or it ends and the call
\* rejects with lastError (`throw lastError`)
loopTest(r, k) ==
    IF k <= r.attempts
    THEN [r EXCEPT !.attempt = k, !.pc = "try"]
    ELSE [r EXCEPT !.attempt = k, !.pc = "settled",
                   !.settled = Some([kind |-> "rejected", value |-> r.lastError]),
                   !.settledAt = r.time]

\* the decorated method is called: the locals are fresh and the loop starts
\* at attempt 1
retryCall ==
    /\ retrying.pc \in {"idle", "settled"} /\ ops < limit
    /\ retrying' = loopTest([retrying EXCEPT !.lastError = None, !.invokedAt = <<>>,
                                             !.outcomes = <<>>, !.settled = None], 1)
    /\ ret' = [op |-> "retry called"]
    /\ ops' = ops + 1
    /\ UNCHANGED <<hostVars, made, copts, storage, stats, timer, nextCleanup, pending, now,
                   callers, written, limit, emitterVars, componentVars, tree, debounced,
                   given, client>>

\* `return await originalMethod?.apply(this, args)` when the original's
\* promise is fulfilled: the call resolves with its value
OriginalResolves ==
    /\ retrying.pc = "try"
    /\ retrying' = [retrying EXCEPT
                       !.invokedAt = Append(@, retrying.time),
                       !.outcomes = Append(@, "fulfilled"),
                       !.pc = "settled",
                       !.settled = Some([kind |-> "resolved",
                                         value |-> Some(ValueOf(retrying.attempt))]),
                       !.settledAt = retrying.time]
    /\ ret' = [op |-> "retry resolved"]
    /\ RetryQuiet

\* the original throws or its promise is rejected: the catch block keeps the
\* error, warns and, if attempts are left, starts the timer of the delay;
\* otherwise the loop goes on to attempt + 1
OriginalRejects ==
    /\ retrying.pc = "try"
    /\ LET caught == [retrying EXCEPT
                         !.invokedAt = Append(@, retrying.time),
                         !.outcomes = Append(@, "rejected"),
                         !.lastError = Some(ErrorOf(retrying.attempt)),
                         !.warned = @ + 1]
       IN  retrying' = IF retrying.attempt < retrying.attempts
                       THEN [caught EXCEPT !.pc = "waiting"]
                       ELSE loopTest(caught, retrying.attempt + 1)
    /\ ret' = [op |-> IF retrying'.pc = "settled" THEN "retry rejected" ELSE "retry caught"]
    /\ RetryQuiet

\* the timer of `await new Promise((resolve) => setTimeout(resolve, delay))`
\* fires `delay` after it was started, and the loop goes on to attempt + 1
DelayElapsed ==
    /\ retrying.pc = "waiting"
    /\ retrying' = loopTest([retrying EXCEPT !.time = @ + retrying.delay],
                            retrying.attempt + 1)
    /\ ret' = [op |-> "retry delayed"]
    /\ RetryQuiet

(***************************************************************************)
(* debounce(options): the replacement of a decorated method                *)
(***************************************************************************)
Waits == {0, 1, 2}
Receivers == {"o1", "o2"}   \* instances of the class that has the method
Arguments == {"x", "y"}
DebounceHorizon == MaxTime + 2

\* debounce(options) applied to a method: the closure holds timeoutId, shared
\* by every instance of the class.  `time` is the clock of the run, `calls`
\* the calls of the decorated method and `invocations` those of the original.
DebounceDecorated(wait, leading) ==
    debounced = [wait |-> wait, leading |-> leading, timeoutId |-> None, time |-> 0,
                 calls |-> <<>>, invocations |-> <<>>]

DebounceQuiet ==
    UNCHANGED <<hostVars, made, copts, storage, stats, timer, nextCleanup, pending, now,
                callers, written, limit, emitterVars, componentVars, tree, retrying, given,
                client>>

\* no timer of the closure is due and still waiting to run: a timer runs at
\* the time it is due, before anything that happens later
NoTimerDue(d) == IF d.timeoutId = None THEN TRUE ELSE d.time < Val(d.timeoutId).due

\* the leading edge taken on every call
callNowWhenLeading(d) == d.leading

\* const callNow = options.leading && !timeoutId
callNow(d) == d.leading /\ d.timeoutId = None

\* originalMethod?.apply(this, args)
apply(d, this, args, by) ==
    [d EXCEPT !.invocations = Append(@, [at |-> d.time, this |-> this, args |-> args,
                                         by |-> by])]

\* a call of the decorated method on `this` with `args`: a pending timer is
\* cleared, a new one is started with the call's `this` and `args`, and the
\* original is invoked at once if callNow
debouncedCall(this, args) ==
    /\ ops < limit /\ NoTimerDue(debounced)
    /\ LET armed == [debounced EXCEPT
                        !.calls = Append(@, [at |-> debounced.time, this |-> this,
                                             args |-> args]),
                        !.timeoutId = Some([due |-> debounced.time + debounced.wait,
                                            this |-> this, args |-> args])]
       IN  debounced' = IF callNow(debounced) THEN apply(armed, this, args, "call")
                        ELSE armed
    /\ ret' = [op |-> "debounced", this |-> this, args |-> args,
               invoked |-> callNow(debounced)]
    /\ ops' = ops + 1
    /\ DebounceQuiet

\* the timer's callback: timeoutId = undefined, and without `leading` the
\* original is invoked with the `this` and `args` of the call that started
\* the timer
TimerFires ==
    /\ debounced.timeoutId # None /\ debounced.time = Val(debounced.timeoutId).due
    /\ LET t == Val(debounced.timeoutId)
           cleared == [debounced EXCEPT !.timeoutId = None]
       IN  debounced' = IF ~debounced.leading THEN apply(cleared, t.this, t.args, "timer")
                        ELSE cleared
    /\ ret' = [op |-> "timer", this |-> Val(debounced.timeoutId).this,
               args |-> Val(debounced.timeoutId).args, invoked |-> ~debounced.leading]
    /\ UNCHANGED ops
    /\ DebounceQuiet

\* one unit of time passes
TimePasses ==
    /\ debounced.time < DebounceHorizon /\ NoTimerDue(debounced)
    /\ debounced' = [debounced EXCEPT !.time = @ + 1]
    /\ ret' = [op |-> "time", this |-> "", args |-> "", invoked |-> FALSE]
    /\ UNCHANGED ops
    /\ DebounceQuiet

(***************************************************************************)
(* String utilities: truncate                                              *)
(***************************************************************************)
\* strings are sequences of characters
Chars == {"a", "b"}
Strings == UNION {[1..n -> Chars] : n \in 0..MaxLen}
Suffixes == {<<>>, <<".">>, <<".", ".", ".">>}   \* the last is the default '...'
MaxLengths == 0..(MaxLen + 1)

Min(a, b) == IF a <= b THEN a ELSE b
Max(a, b) == IF a >= b THEN a ELSE b

\* String.prototype.slice(start, end): an index below 0 counts from the end
\* of the string, and both are clamped to 0..length
slice(str, start, end) ==
    LET from == IF start < 0 THEN Max(Len(str) + start, 0) ELSE Min(start, Len(str))
        to == IF end < 0 THEN Max(Len(str) + end, 0) ELSE Min(end, Len(str))
    IN  SubSeq(str, from + 1, to)

truncate(str, maxLength, suffix) ==
    IF Len(str) <= maxLength THEN str
    ELSE slice(str, 0, maxLength) \o suffix

\* truncate(given.str, given.maxLength, given.suffix)
Truncate ==
    /\ ret = NoCall
    /\ ret' = [op |-> "truncate", result |-> truncate(given.str, given.maxLength, given.suffix)]
    /\ UNCHANGED <<hostVars, made, cacheVars, emitterVars, componentVars, exampleVars>>

(***************************************************************************)
(* HttpClient: interceptors and request                                    *)
(***************************************************************************)
\* config.retries of a request (documented default 0)
Retries == {0, 1}

\* new HttpClient(options): no interceptors.  `pc` is where the request in
\* progress stands ("request" or "response": awaiting the interceptor at
\* index i of that list), `invoked` the interceptors it has called with the
\* outcome of each call, `settled` the outcome of its promise.
HttpClientConstructor ==
    client = [requestInterceptors |-> <<>>, responseInterceptors |-> <<>>, nextId |-> 1,
              pc |-> "idle", i |-> 0, retries |-> 0, invoked |-> <<>>, settled |-> None]

ClientQuiet ==
    UNCHANGED <<hostVars, made, cacheVars, emitterVars, componentVars, tree, retrying,
                debounced, given>>
ClientCalled ==
    /\ client.pc \in {"idle", "settled"}
    /\ ops < limit /\ ops' = ops + 1
    /\ UNCHANGED <<hostVars, made, copts, storage, stats, timer, nextCleanup, pending, now,
                   callers, written, limit, emitterVars, componentVars, tree, retrying,
                   debounced, given>>

\* the request's promise is settled
settle(c, kind, value) ==
    [c EXCEPT !.pc = "settled", !.i = 0, !.settled = Some([kind |-> kind, value |-> value])]

\* the loop over this.responseInterceptors starts with the simulated
\* response (status 200); after it `return finalResponse`
toResponse(c) ==
    IF c.responseInterceptors # <<>> THEN [c EXCEPT !.pc = "response", !.i = 1]
    ELSE settle(c, "resolved", 200)

\* the loop over this.requestInterceptors starts
toRequest(c) ==
    IF c.requestInterceptors # <<>> THEN [c EXCEPT !.pc = "request", !.i = 1]
    ELSE toResponse(c)

\* the interceptor being awaited
awaited(c) ==
    IF c.pc = "request" THEN c.requestInterceptors[c.i] ELSE c.responseInterceptors[c.i]

\* `await interceptor(...)` returned: the loop goes on
fulfilled(c) ==
    IF c.pc = "request"
    THEN IF c.i < Len(c.requestInterceptors) THEN [c EXCEPT !.i = @ + 1] ELSE toResponse(c)
    ELSE IF c.i < Len(c.responseInterceptors) THEN [c EXCEPT !.i = @ + 1]
         ELSE settle(c, "resolved", 200)

\* config.retries honoured: the request starts over while retries are left
rejectedRetried(c, error) ==
    IF c.retries > 0 THEN toRequest([c EXCEPT !.retries = @ - 1])
    ELSE settle(c, "rejected", error)

\* `await interceptor(...)` threw: nothing in request catches, the request
\* is rejected with the interceptor's error
rejected(c, error) == settle(c, "rejected", error)

\* client.addRequestInterceptor(interceptor)
addRequestInterceptor ==
    /\ client' = [client EXCEPT !.requestInterceptors = Append(@, client.nextId),
                                !.nextId = @ + 1]
    /\ ret' = [op |-> "addRequestInterceptor"]
    /\ ClientCalled

\* client.addResponseInterceptor(interceptor)
addResponseInterceptor ==
    /\ client' = [client EXCEPT !.responseInterceptors = Append(@, client.nextId),
                                !.nextId = @ + 1]
    /\ ret' = [op |-> "addResponseInterceptor"]
    /\ ClientCalled

\* client.get(path, {retries}) and the other verbs: request(method, path,
\* data, config) up to its first await
request(retries) ==
    /\ client' = toRequest([client EXCEPT !.retries = retries, !.invoked = <<>>,
                                          !.settled = None])
    /\ ret' = [op |-> "request"]
    /\ ClientCalled

\* the awaited interceptor returns (or its promise is fulfilled)
InterceptorFulfils ==
    /\ client.pc \in {"request", "response"}
    /\ client' = fulfilled([client EXCEPT
                               !.invoked = Append(@, [id |-> awaited(client),
                                                      outcome |-> "fulfilled"])])
    /\ ret' = [op |-> "interceptor fulfilled"]
    /\ UNCHANGED ops
    /\ ClientQuiet

\* the awaited interceptor throws (or its promise is rejected)
InterceptorRejects ==
    /\ client.pc \in {"request", "response"}
    /\ client' = rejected([client EXCEPT
                              !.invoked = Append(@, [id |-> awaited(client),
                                                     outcome |-> "rejected"])],
                          ErrorOf(awaited(client)))
    /\ ret' = [op |-> "interceptor rejected"]
    /\ UNCHANGED ops
    /\ ClientQuiet

\* no component tree is built, no decorated method and no utility is called
ExampleIdle ==
    tree = <<>> /\ retrying = <<>> /\ debounced = <<>> /\ given = <<>> /\ client = <<>>

(***************************************************************************)
(* Specifications                                                          *)
(***************************************************************************)
PluginInit == HostInit /\ TestClassIdle /\ CacheIdle /\ EmitterIdle /\ ComponentIdle /\ ExampleIdle
    /\ ret = NoCall
PluginNext ==
    \/ \E p \in Plugins : load(p)
    \/ RhineaiThemeConstructor
    \/ EmitBootstrapEnd
    \/ EmitRendererEnd
    \/ EmitHeadEnd
    \/ RunCallback
SpecPlugin == PluginInit /\ [][PluginNext]_vars

TestClassInit == HostIdle /\ TestClassIdle /\ CacheIdle /\ EmitterIdle /\ ComponentIdle /\ ExampleIdle
    /\ ret = NoCall
TestClassNext ==
    \/ TestClassConstructor
    \/ createDefault
    \/ increment
    \/ greet
    \/ reset
SpecTestClass == TestClassInit /\ [][TestClassNext]_vars

CacheSpecInit ==
    /\ HostIdle /\ TestClassIdle /\ EmitterIdle /\ ComponentIdle /\ ExampleIdle
    /\ ret = NoCall
    /\ callers = {"a", "b"}
    /\ limit = MaxOps
    /\ CacheInit({Some(0), Some(2)}, {None, Some(1)}, {None}, {None}, {Some(0), Some(2)})
CacheNext ==
    \/ Set
    \/ Get
    \/ GetOrSetCall
    \/ GetOrSetResume
    \/ GetOrSetReject
    \/ Has
    \/ Delete
    \/ Clear
    \/ Touch
    \/ Destroy
    \/ Cleanup
    \/ Tick
SpecCache == CacheSpecInit /\ [][CacheNext]_vars

\* a 'fifo' cache of two entries used with three keys
CacheFifoInit ==
    /\ HostIdle /\ TestClassIdle /\ EmitterIdle /\ ComponentIdle /\ ExampleIdle
    /\ ret = NoCall
    /\ callers = {"a", "b", "c"}
    /\ limit = MaxOps + 2
    /\ CacheInit({Some(2)}, {None}, {Some("fifo")}, {None}, {Some(0)})
CacheFifoNext ==
    \/ Set
    \/ Get
    \/ Delete
    \/ Tick
SpecCacheFifo == CacheFifoInit /\ [][CacheFifoNext]_vars

\* a cache that is never destroyed: the clock advances and the interval
\* timer, when one was started, fires when it is due
CacheLiveInit ==
    /\ HostIdle /\ TestClassIdle /\ EmitterIdle /\ ComponentIdle /\ ExampleIdle
    /\ ret = NoCall
    /\ callers = {"a", "b"}
    /\ limit = MaxOps
    /\ CacheInit({Some(2)}, {None, Some(1)}, {None}, {None}, {Some(0), Some(2)})
CacheLiveNext ==
    \/ Set
    \/ Get
    \/ Touch
    \/ Cleanup
    \/ Tick
SpecCacheLive ==
    CacheLiveInit /\ [][CacheLiveNext]_vars /\ WF_vars(Tick) /\ WF_vars(Cleanup)

\* one base cache shared by the wrappers of two namespaces
CacheNamespacedInit ==
    /\ HostIdle /\ TestClassIdle /\ EmitterIdle /\ ComponentIdle /\ ExampleIdle
    /\ ret = NoCall
    /\ callers = {}
    /\ limit = MaxOps + 1
    /\ CacheInit({None}, {None}, {None}, {None}, {Some(0)})
CacheNamespacedNext ==
    \/ NamespacedSet
    \/ NamespacedGet
    \/ NamespacedDelete
    \/ NamespacedHas
    \/ Tick
SpecCacheNamespaced == CacheNamespacedInit /\ [][CacheNamespacedNext]_vars

\* a new emitter whose client makes n calls; the other services are not used
EmitterInit(n) ==
    /\ HostIdle /\ TestClassIdle /\ ComponentIdle /\ ExampleIdle /\ ret = NoCall
    /\ CacheConstructor([maxSize |-> None, defaultTtl |-> None, evictionPolicy |-> None,
                         cloneValues |-> None, cleanupInterval |-> None])
    /\ callers = {}
    /\ limit = n
    /\ EventEmitterConstructor

\* listeners of several priorities on one event and on '*', some of which throw
EmitterOrderInit == EmitterInit(MaxOps + 2)
EmitterOrderNext ==
    \/ on({"e"}, {Returns, Throws}, {FALSE}, {None, Some(0), Some(1)})
    \/ on({"f"}, {Returns}, {FALSE}, {None})
    \/ onAny({Returns}, {FALSE}, {None, Some(1)})
    \/ emit({"e"})
    \/ HandlerReturns
    \/ HandlerThrows
    \/ EmitReturns
SpecEmitterOrder == EmitterOrderInit /\ [][EmitterOrderNext]_vars

\* one-time listeners on an event and on '*', handlers that throw or emit,
\* and emitAsync calls that are suspended while other calls are made
EmitterOnceInit == EmitterInit(MaxOps + 1)
EmitterOnceNext ==
    \/ once({"e"}, {Returns, Throws, Emits("e")}, {None})
    \/ on({"e"}, {Returns, Throws}, {FALSE, TRUE}, {None})
    \/ onAny({Returns}, {TRUE}, {None})
    \/ emit({"e"})
    \/ emitAsync({"e"})
    \/ HandlerReturns
    \/ HandlerThrows
    \/ HandlerEmits
    \/ EmitReturns
    \/ EmitAsyncAwaits
    \/ EmitAsyncResumes
SpecEmitterOnce == EmitterOnceInit /\ [][EmitterOnceNext]_vars

\* listeners that are unsubscribed between emits and by handlers during an
\* emit, each subscription possibly more than once
EmitterUnsubscribeInit == EmitterInit(MaxOps + 2)
EmitterUnsubscribeNext ==
    \/ on({"e"}, {Returns} \cup {Unsubscribes(id) : id \in 0..nextListenerId}, {FALSE},
          {None, Some(1)})
    \/ onAny({Returns}, {FALSE}, {None})
    \/ unsubscribe
    \/ emit({"e"})
    \/ emitAsync({"e"})
    \/ HandlerReturns
    \/ HandlerUnsubscribes
    \/ EmitReturns
    \/ EmitAsyncAwaits
    \/ EmitAsyncResumes
SpecEmitterUnsubscribe == EmitterUnsubscribeInit /\ [][EmitterUnsubscribeNext]_vars

\* a waitFor with or without a timeout, next to listeners that may throw
EmitterWaitForInit == EmitterInit(MaxOps + 1)
EmitterWaitForNext ==
    \/ waitFor({"e"}, {None, Some(1)})
    \/ on({"e"}, {Returns, Throws}, {FALSE}, {None, Some(1)})
    \/ emit({"e"})
    \/ Timeout
    \/ HandlerReturns
    \/ HandlerThrows
    \/ HandlerResolves
    \/ EmitReturns
SpecEmitterWaitFor == EmitterWaitForInit /\ [][EmitterWaitForNext]_vars

\* listeners added on several events while a maximum is set
EmitterMaxInit == EmitterInit(MaxOps + 2)
EmitterMaxNext ==
    \/ setMaxListeners({0, 1, 2})
    \/ on(EventNames, {Returns}, {FALSE}, {None})
    \/ once({"e"}, {Returns}, {None})
    \/ onAny({Returns}, {FALSE}, {None})
SpecEmitterMax == EmitterMaxInit /\ [][EmitterMaxNext]_vars

\* a component of a subclass with any two hooks, mounted and unmounted by
\* its owner
ComponentInit ==
    /\ HostIdle /\ TestClassIdle /\ EmitterIdle /\ ExampleIdle /\ ret = NoCall
    /\ CacheConstructor([maxSize |-> None, defaultTtl |-> None, evictionPolicy |-> None,
                         cloneValues |-> None, cleanupInterval |-> None])
    /\ callers = {}
    /\ limit = MaxOps + 1
    /\ \E onBeforeMount \in HookBehaviours, onMounted \in HookBehaviours :
          ComponentConstructor(onBeforeMount, onMounted)
ComponentNext ==
    \/ mount
    \/ unmount
    \/ HookAbsent
    \/ HookReturns
    \/ HookThrows
    \/ HookMounts
    \/ HookUnmounts
    \/ SetMounted
SpecComponent == ComponentInit /\ [][ComponentNext]_vars

\* three components, put together to trees, subscribed to and unmounted by
\* their owner; the owner never adds a component below itself
ComponentTreeInit ==
    /\ HostIdle /\ TestClassIdle /\ EmitterIdle /\ ComponentIdle /\ ret = NoCall
    /\ CacheConstructor([maxSize |-> None, defaultTtl |-> None, evictionPolicy |-> None,
                         cloneValues |-> None, cleanupInterval |-> None])
    /\ callers = {}
    /\ limit = MaxOps + 2
    /\ TreeConstructor
    /\ retrying = <<>> /\ debounced = <<>> /\ given = <<>> /\ client = <<>>
ComponentTreeNext ==
    \/ \E parent \in ComponentIds, child \in ComponentIds :
          parent \notin Reachable(tree, child) /\ addChild(parent, child)
    \/ \E parent \in ComponentIds, child \in ComponentIds : removeChild(parent, child)
    \/ \E id \in ComponentIds, handler \in Handlers : componentOn(id, handler)
    \/ \E id \in ComponentIds : componentUnmount(id)
SpecComponentTree == ComponentTreeInit /\ [][ComponentTreeNext]_vars

\* a method decorated with retry(attempts, delay), for any attempts and
\* delay, called a few times; each attempt of the original succeeds or fails
RetryInit ==
    /\ HostIdle /\ TestClassIdle /\ EmitterIdle /\ ComponentIdle /\ ret = NoCall
    /\ CacheConstructor([maxSize |-> None, defaultTtl |-> None, evictionPolicy |-> None,
                         cloneValues |-> None, cleanupInterval |-> None])
    /\ callers = {}
    /\ limit = MaxOps
    /\ \E attempts \in Attempts, delay \in Delays : RetryDecorated(attempts, delay)
    /\ tree = <<>> /\ debounced = <<>> /\ given = <<>> /\ client = <<>>
RetryNext ==
    \/ retryCall
    \/ OriginalResolves
    \/ OriginalRejects
    \/ DelayElapsed
SpecRetry == RetryInit /\ [][RetryNext]_vars

\* a method decorated with debounce({wait, leading}), called on two
\* instances with two arguments at any times
DebounceInit ==
    /\ HostIdle /\ TestClassIdle /\ EmitterIdle /\ ComponentIdle /\ ret = NoCall
    /\ CacheConstructor([maxSize |-> None, defaultTtl |-> None, evictionPolicy |-> None,
                         cloneValues |-> None, cleanupInterval |-> None])
    /\ callers = {}
    /\ limit = MaxOps + 1
    /\ \E wait \in Waits, leading \in BOOLEAN : DebounceDecorated(wait, leading)
    /\ tree = <<>> /\ retrying = <<>> /\ given = <<>> /\ client = <<>>
DebounceNext ==
    \/ \E this \in Receivers, args \in Arguments : debouncedCall(this, args)
    \/ TimerFires
    \/ TimePasses
SpecDebounce == DebounceInit /\ [][DebounceNext]_vars

\* truncate called once with any string, maximum length and suffix
TruncateInit ==
    /\ HostIdle /\ TestClassIdle /\ CacheIdle /\ EmitterIdle /\ ComponentIdle /\ ret = NoCall
    /\ tree = <<>> /\ retrying = <<>> /\ debounced = <<>> /\ client = <<>>
    /\ given \in [str : Strings, maxLength : MaxLengths, suffix : Suffixes]
TruncateNext == Truncate
SpecTruncate == TruncateInit /\ [][TruncateNext]_vars

\* the operations that call something that can fail: a method decorated
\* with retry, and the requests of an HttpClient with interceptors
FailuresInit ==
    /\ HostIdle /\ TestClassIdle /\ EmitterIdle /\ ComponentIdle /\ ret = NoCall
    /\ CacheConstructor([maxSize |-> None, defaultTtl |-> None, evictionPolicy |-> None,
                         cloneValues |-> None, cleanupInterval |-> None])
    /\ callers = {}
    /\ limit = MaxOps + 1
    /\ \E attempts \in Attempts, delay \in Delays : RetryDecorated(attempts, delay)
    /\ HttpClientConstructor
    /\ tree = <<>> /\ debounced = <<>> /\ given = <<>>
FailuresNext ==
    \/ retryCall
    \/ OriginalResolves
    \/ OriginalRejects
    \/ DelayElapsed
    \/ addRequestInterceptor
    \/ addResponseInterceptor
    \/ \E retries \in Retries : request(retries)
    \/ InterceptorFulfils
    \/ InterceptorRejects
SpecFailures == FailuresInit /\ [][FailuresNext]_vars

(***************************************************************************)
(* Properties of load(app) and RhineaiTheme                                *)
(***************************************************************************)
Registered(p) == <<p, ThemeClass(p)>> \in themes
RunsLoadCallback(p) == queue # <<>> /\ Head(queue) = [kind |-> "load", arg |-> p]

\* C1: when the bootstrapEnd callback of load(app) runs with the 'theme'
\* option not set, or set to the plugin's own theme name, the option equals
\* the plugin's theme name afterwards and no warning is logged.
C1_SelectsOwnTheme ==
    [][\A p \in Plugins :
          (RunsLoadCallback(p) /\ options.theme \in {None, Some(p)})
             => (options'.theme = Some(p) /\ warnings' = warnings)]_vars

C1_Witness ==
    /\ ret.op = "bootstrapEnd" /\ ret.before = None /\ ~ret.warned
    /\ options.theme = Some(ret.plugin) /\ warnings = <<>>

\* C2: when the bootstrapEnd callback of load(app) runs with the 'theme'
\* option set to a value other than the plugin's theme name, exactly one
\* warning is logged and the option keeps the value the user selected.
C2_WarnsAndKeepsUserTheme ==
    [][\A p \in Plugins :
          (RunsLoadCallback(p) /\ options.theme \notin {None, Some(p)})
             => (/\ Len(warnings') = Len(warnings) + 1
                 /\ SubSeq(warnings', 1, Len(warnings)) = warnings
                 /\ warnings'[Len(warnings')] = <<p, Val(options.theme)>>
                 /\ options' = options)]_vars

C2_Witness ==
    /\ ret.op = "bootstrapEnd" /\ ret.warned /\ ret.before = Some("other-theme")
    /\ options.theme = Some("other-theme") /\ Len(warnings) = 1

\* C3: load(app) registers the theme under the plugin's name during the
\* call itself: once load has returned the theme is registered, so it is
\* registered whenever a bootstrapEnd callback of the plugin is registered or
\* about to run, whatever theme the user selected.
C3_RegisteredByLoad ==
    \A p \in Plugins :
       (\/ ret.op = "load" /\ ret.plugin = p
        \/ \E i \in 1..Len(listeners) : listeners[i] = [kind |-> "load", arg |-> p]
        \/ \E i \in 1..Len(queue) : queue[i] = [kind |-> "load", arg |-> p])
          => Registered(p)

C3_Witness ==
    /\ ret.op = "load" /\ ret.plugin = RhineaiName /\ Registered(RhineaiName)
    /\ options.theme = Some("other-theme") /\ emitted = 0

\* C4: every END listener call copies the assets directory to
\* <outputDirectory>/assets and then the public directory to
\* <outputDirectory>, for the output directory of that event; when the event
\* has been dispatched, every constructed theme has made both copies.
C4_CopiesAssetsThenPublic ==
    ret.op = "end" =>
       LET n == Len(copies) IN
          /\ n >= 2
          /\ copies[n - 1] = << <<"pkg", "src", "assets">>, ret.out \o <<"assets">> >>
          /\ copies[n] = << <<"pkg", "src", "public">>, ret.out >>
          /\ n = 2 * (instances - Len(queue))

C4_Witness ==
    /\ ret.op = "end" /\ queue = <<>> /\ emitted >= 2
    /\ copies = << << <<"pkg", "src", "assets">>, <<"out", "site", "assets">> >>,
                   << <<"pkg", "src", "public">>, <<"out", "site">> >> >>

\* C5: every call of the head.end hook contributes exactly one stylesheet
\* link, whose href is the URL of assets/rhineai-style.css relative to the
\* page of that call.
C5_OneStylesheetLink ==
    ret.op = "head" =>
       /\ Len(head) = instances - Len(queue)
       /\ head[Len(head)] = [tag |-> "link", rel |-> "stylesheet",
                              href |-> [i \in 1..ret.depth |-> ".."] \o <<"assets", "rhineai-style.css">>]

C5_Witness ==
    /\ ret.op = "head" /\ ret.depth = 2 /\ queue = <<>>
    /\ head = << [tag |-> "link", rel |-> "stylesheet",
                  href |-> <<"..", "..", "assets", "rhineai-style.css">>] >>

(***************************************************************************)
(* Properties of TestClass                                                 *)
(***************************************************************************)
\* C6: new TestClass with an empty name throws Error('Name cannot be empty')
\* and yields no instance; with a non-empty name the instance has that name
\* and count = initialCount, 0 when initialCount is left out.
C6_ConstructorValidatesName ==
    ret.op = "new TestClass" =>
       IF ret.name = ""
       THEN made.threw = Some("Name cannot be empty") /\ made.instance = None
       ELSE /\ made.threw = None
            /\ made.instance =
                  Some([name |-> ret.name,
                        count |-> IF ret.initialCount = None THEN 0 ELSE Val(ret.initialCount)])

C6_Witness ==
    /\ ret.op = "new TestClass" /\ ret.name = "" /\ ret.initialCount = Some(2)
    /\ made.threw = Some("Name cannot be empty") /\ made.instance = None

(***************************************************************************)
(* Properties of Cache                                                     *)
(***************************************************************************)
StoredKeys(st) == {st[i].key : i \in 1..Len(st)}
\* the step is a call of the cache method `name`
Calls(name) == ops' = ops + 1 /\ ret'.op = name

\* C7: the number of stored entries never exceeds maxSize.
C7_SizeWithinMaxSize == Len(storage) <= copts.maxSize

\* C8: get(key) returns a stored value only while its entry is unexpired.
\* For an entry whose expiry was written by set at time T with ttl t > 0, get
\* returns the value at every time up to and including T + t; later it
\* returns undefined, removes the entry and counts a miss.  get on a key
\* that is not stored returns undefined.
C8_GetWhileUnexpired ==
    [][\A k \in callers :
          (Calls("get") /\ ret'.key = k) =>
             /\ ~mapHas(storage, k) => ret'.result = None
             /\ ret'.result # None =>
                   /\ mapHas(storage, k)
                   /\ ret'.result = Some(mapGet(storage, k).value)
                   /\ LET e == mapGet(storage, k).expiresAt IN IsSome(e) => now <= Val(e)
             /\ (mapHas(storage, k) /\ IsSome(written[k]) /\ Val(written[k])[2] > 0) =>
                   IF now <= Val(written[k])[1] + Val(written[k])[2]
                   THEN ret'.result = Some(mapGet(storage, k).value)
                   ELSE /\ ret'.result = None
                        /\ ~mapHas(storage', k)
                        /\ stats'.misses = stats.misses + 1]_vars

C8_Witness ==
    /\ ret.op = "get" /\ ret.result = None /\ ops = 2 /\ ~timer
    /\ written[ret.key] = Some(<<0, 1>>) /\ now = 2
    /\ ~mapHas(storage, ret.key) /\ stats.misses = 1

\* C9: set with {ttl: 0} builds an entry without expiry, also when
\* defaultTtl is positive; set without a ttl uses defaultTtl, and builds an
\* entry without expiry when defaultTtl is 0 (unset).  An entry without
\* expiry is returned by get at any time and is never removed by get, has,
\* getOrSet or the periodic cleanup.
C9_TtlZeroNeverExpires ==
    [][\A k \in callers :
          /\ (Calls("set") /\ ret'.key = k) =>
                LET e == mapGet(storage', k) IN
                /\ ret'.ttl = Some(0) => e.expiresAt = None
                /\ ret'.ttl = None =>
                      e.expiresAt = IF copts.defaultTtl > 0
                                    THEN Some(now + copts.defaultTtl) ELSE None
          /\ (mapHas(storage, k) /\ mapGet(storage, k).expiresAt = None) =>
                /\ ret'.op \in {"get", "has", "getOrSet", "cleanup", "tick"} => mapHas(storage', k)
                /\ (Calls("get") /\ ret'.key = k) => ret'.result = Some(mapGet(storage, k).value)]_vars

C9_Witness ==
    /\ copts.defaultTtl > 0 /\ written["a"] = Some(<<0, 0>>) /\ now = 2 /\ ops = 2
    /\ ret = [op |-> "get", key |-> "a", result |-> Some("x")]
    /\ mapGet(storage, "a").expiresAt = None

\* C10: with the policy 'lru', a set that inserts a new key into a full
\* cache evicts exactly one entry, one whose lastAccessedAt (its most recent
\* set or successful get) is no later than that of every other stored entry.
C10_LruEvictsLeastRecent ==
    [][\A k \in callers :
          (/\ Calls("set") /\ ret'.key = k
           /\ copts.evictionPolicy = "lru"
           /\ ~mapHas(storage, k)
           /\ Len(storage) >= copts.maxSize) =>
             \E i \in 1..Len(storage) :
                /\ \A j \in 1..Len(storage) :
                      storage[i].lastAccessedAt <= storage[j].lastAccessedAt
                /\ StoredKeys(storage') = (StoredKeys(storage) \ {storage[i].key}) \cup {k}
                /\ stats'.evictions = stats.evictions + 1]_vars

\* C11: with the policy 'fifo', a set that inserts a new key into a full
\* cache evicts the entry whose key was inserted first among the stored keys
\* (the first key of the Map), whatever gets and overwriting sets followed.
C11_FifoEvictsFirstInserted ==
    [][\A k \in callers :
          (/\ Calls("set") /\ ret'.key = k
           /\ copts.evictionPolicy = "fifo"
           /\ ~mapHas(storage, k)
           /\ storage # <<>> /\ Len(storage) >= copts.maxSize) =>
             StoredKeys(storage') = (StoredKeys(storage) \ {storage[1].key}) \cup {k}]_vars

StoredExpired(k) ==
    /\ mapHas(storage, k)
    /\ LET e == mapGet(storage, k).expiresAt IN IsSome(e) /\ now > Val(e)

\* C13: in a cache that is not destroyed, an entry whose expiry time has
\* passed is eventually removed (or rewritten), also when nobody reads its
\* key again, whatever defaultTtl, cleanupInterval and per-entry ttl are.
\* (A timer that is due only after the clock's last instant MaxTime is left
\* out: the run ends before it fires.)
C13_ExpiredEventuallyRemoved ==
    \A k \in Keys :
       (StoredExpired(k) /\ (timer => nextCleanup <= MaxTime)) ~> ~StoredExpired(k)

\* C14: an entry written through the wrapper of one namespace is never
\* returned by get, reported by has, overwritten by set or removed by delete
\* through the wrapper of another namespace: the entry such a call finds was
\* written through the wrapper that makes the call.
C14_NamespacesDoNotCollide ==
    [][\A namespace \in Namespaces, key \in NamespacedKeys :
          (/\ ops' = ops + 1
           /\ ret'.op \in {"namespaced get", "namespaced has", "namespaced set",
                           "namespaced delete"}
           /\ ret'.namespace = namespace /\ ret'.key = key
           /\ mapHas(storage, prefixed(namespace, key))) =>
              mapGet(storage, prefixed(namespace, key)).value = namespace]_vars

(***************************************************************************)
(* Properties of the EventEmitter service                                  *)
(***************************************************************************)
\* the listeners an emit call found registered, and the order the claim gives
FoundBy(f) == f.eventListeners \o f.wildcardListeners
FoundIds(f) == {FoundBy(f)[i].id : i \in 1..Len(FoundBy(f))}
EntryOf(f, id) == FoundBy(f)[CHOOSE i \in 1..Len(FoundBy(f)) : FoundBy(f)[i].id = id]
IsWildcardOf(f, id) == \E i \in 1..Len(f.wildcardListeners) : f.wildcardListeners[i].id = id
RunsBefore(f, a, b) ==
    \/ priorityOf(EntryOf(f, a)) > priorityOf(EntryOf(f, b))
    \/ /\ priorityOf(EntryOf(f, a)) = priorityOf(EntryOf(f, b))
       /\ \/ ~IsWildcardOf(f, a) /\ IsWildcardOf(f, b)
          \/ IsWildcardOf(f, a) = IsWildcardOf(f, b) /\ a < b
InOrder(f) ==
    /\ \A i \in 1..Len(f.done) : f.done[i] \in FoundIds(f)
    /\ \A i, j \in 1..Len(f.done) : i < j => RunsBefore(f, f.done[i], f.done[j])
EmitEnded == ret'.op \in {"emit", "emit threw"}

\* C15 as stated: every emit(event) call invokes the listeners of the event
\* and the wildcard listeners, each once, by descending priority, at equal
\* priority the event's listeners before the wildcard ones and otherwise in
\* order of registration.
C15_EmitInvokesAllInOrder ==
    [][EmitEnded =>
          /\ InOrder(ret'.frame)
          /\ {ret'.frame.done[i] : i \in 1..Len(ret'.frame.done)} = FoundIds(ret'.frame)]_vars

\* C15 amended: emit invokes them in that order, each at most once, and all
\* of them unless a handler throws; then the listeners that come after the
\* throwing one in that order are not invoked by this call.
C15_EmitInvokesInOrderUntilThrow ==
    [][EmitEnded =>
          LET f == ret'.frame
              ids == {f.done[i] : i \in 1..Len(f.done)}
          IN  /\ InOrder(f)
              /\ ret'.op = "emit" => ids = FoundIds(f)
              /\ ret'.op = "emit threw" =>
                    /\ f.done[Len(f.done)] = ret'.id
                    /\ EntryOf(f, ret'.id).handler = Throws
                    /\ \A a \in ids, b \in FoundIds(f) \ ids : RunsBefore(f, a, b)]_vars

\* an emit that returned after invoking, in this order, a listener of
\* priority 1 registered last, a listener of the event given priority 0 and
\* a wildcard listener without priority that was registered first
C15_Witness ==
    /\ ret.op = "emit" /\ ret.result
    /\ ret.frame.done = <<2, 1, 0>>
    /\ IsWildcardOf(ret.frame, 0) /\ EntryOf(ret.frame, 0).options.priority = None
    /\ EntryOf(ret.frame, 1).options.priority = Some(0)
    /\ EntryOf(ret.frame, 2).options.priority = Some(1)

\* C16: the handler of a listener registered with once() or with
\* options.once = true, on an event or through onAny, is invoked at most
\* once over all emit and emitAsync calls.
C16_OnceInvokedAtMostOnce ==
    [][\A id \in 0..(nextListenerId - 1) :
          (/\ InLoop /\ Current.id = id /\ Current.options.once
           /\ invoked'[id + 1] = invoked[id + 1] + 1) => invoked[id + 1] = 0]_vars

\* this step invokes the handler of listener id
Invokes(id) == InLoop /\ Current.id = id /\ invoked'[id + 1] = invoked[id + 1] + 1
\* this step calls unsubscribe() on the subscription of listener id
Unsubscribing(id) ==
    \/ ret'.op = "unsubscribe" /\ ret'.id = id
    \/ InLoop /\ Current.handler = Unsubscribes(id) /\ ret'.op = "handler"

\* C17 as stated: once unsubscribe() of a subscription has returned, its
\* handler is not invoked again through that registration, not even by the
\* rest of an emit that is in progress; a second unsubscribe() removes no
\* listener.
C17_NeverInvokedAfterUnsubscribe ==
    [][\A id \in 0..(nextListenerId - 1) :
          /\ Invokes(id) => unsubscribedAt[id + 1] = None
          /\ (Unsubscribing(id) /\ ~subscriptions[id + 1].isActive) =>
                emitterListeners' = emitterListeners]_vars

\* C17 amended: once unsubscribe() has returned, the handler is not invoked
\* through that registration by any emit or emitAsync call that starts
\* afterwards (a call in progress iterates over its copy and may still
\* invoke it); a second unsubscribe() removes no listener.
C17_NotInvokedByLaterEmit ==
    [][\A id \in 0..(nextListenerId - 1) :
          /\ Invokes(id) =>
                \/ unsubscribedAt[id + 1] = None
                \/ Top.serial <= Val(unsubscribedAt[id + 1])
          /\ (Unsubscribing(id) /\ ~subscriptions[id + 1].isActive) =>
                emitterListeners' = emitterListeners]_vars

\* an emit that started after unsubscribe() of a listener had returned and
\* ended without invoking it, although an earlier emit had invoked it
C17_Witness ==
    /\ ret.op = "emit"
    /\ \E id \in 0..(nextListenerId - 1) :
          /\ invoked[id + 1] = 1
          /\ unsubscribedAt[id + 1] # None
          /\ Val(unsubscribedAt[id + 1]) < ret.frame.serial
          /\ ~subscriptions[id + 1].isActive
          /\ \A i \in 1..Len(ret.frame.done) : ret.frame.done[i] # id

\* C18: once the promise of waitFor has settled (and no emit is in
\* progress), its listener is no longer registered and its timer is no
\* longer pending; a resolved promise carries the data of an emit.
C18_SettledWaiterIsUnregistered ==
    (/\ IsSome(waiter) /\ Val(waiter).state # "pending"
     /\ stack = <<>> /\ awaiting = <<>>) =>
        /\ \A i \in 1..Len(emitterListeners[Val(waiter).event]) :
              emitterListeners[Val(waiter).event][i].id # Val(waiter).id
        /\ ~Val(waiter).timeoutId
        /\ Val(waiter).state = "resolved" => Val(waiter).value \in {Some(d) : d \in EventData}

\* C19: while a maximum n > 0 set with setMaxListeners is in effect, no
\* on, once or onAny call leaves more than n listeners registered for one
\* event.
C19_ListenersWithinMax ==
    [][(ret'.op \in {"on", "once", "onAny"} /\ ops' = ops + 1 /\ maxListeners > 0) =>
          Len(emitterListeners'[ret'.event]) <= maxListeners]_vars

(***************************************************************************)
(* Properties of Component                                                 *)
(***************************************************************************)
\* C20: a mount() call made in a state other than Creating throws
\* 'Component can only be mounted once' and leaves the state unchanged; one
\* made in Creating goes on to onBeforeMount, then sets the state to Mounted,
\* then goes on to onMounted; the component enters Mounted through mount()
\* at most once.
C20_MountedAtMostOnce ==
    [][/\ (ret'.op \in {"mount", "mount called"} /\ ops' = ops + 1) =>
             IF componentState = "creating"
             THEN ret'.threw = None /\ mounting' = <<"onBeforeMount">>
             ELSE /\ ret'.threw = Some("Component can only be mounted once")
                  /\ componentState' = componentState /\ mounting' = <<>>
       /\ (componentState' = "mounted" /\ componentState # "mounted") =>
             /\ mounting # <<>> /\ TopMount = "set" /\ mounting' = setPc("onMounted")
             /\ hooks.onBeforeMount # "absent" => ran.onBeforeMount > 0
       /\ entered' <= 1]_vars
\* C21: unmount() on a component that is not Destroyed leaves that
\* component and every component reachable through its children in state
\* Destroyed, with its children list empty and all its event handlers
\* removed; unmount() on a Destroyed component does nothing
C21_UnmountDestroysSubtree ==
    ret.op = "unmount" =>
        IF ret.before[ret.id].state = "destroyed"
        THEN tree = ret.before
        ELSE \A id \in Reachable(ret.before, ret.id) :
                /\ tree[id].state = "destroyed"
                /\ tree[id].children = <<>>
                /\ tree[id].eventHandlers = {}
(***************************************************************************)
(* Properties of the method decorators                                     *)
(***************************************************************************)
\* C22: a method decorated with retry(attempts, delay) invokes the original
\* at least once and at most `attempts` times per call, stops at the first
\* attempt that succeeds and resolves with its result, waits `delay` between
\* consecutive attempts but not after the last one, and when every attempt
\* fails rejects with the error thrown by the last attempt
C22_RetryContract ==
    LET n == Len(retrying.invokedAt) IN
    /\ n <= retrying.attempts
    /\ \A i \in 1..(n - 1) :
          /\ retrying.outcomes[i] = "rejected"
          /\ retrying.invokedAt[i + 1] - retrying.invokedAt[i] = retrying.delay
    /\ retrying.pc = "settled" =>
          /\ n >= 1
          /\ retrying.settledAt = retrying.invokedAt[n]
          /\ IF retrying.outcomes[n] = "fulfilled"
             THEN retrying.settled = Some([kind |-> "resolved", value |-> Some(ValueOf(n))])
             ELSE /\ n = retrying.attempts
                  /\ retrying.settled = Some([kind |-> "rejected", value |-> Some(ErrorOf(n))])
\* the calls of the original that the calls made so far amount to when call
\* i invokes it iff keep[i], at the time of call i plus `after`
InvocationsOf(keep, after) ==
    LET calls == debounced.calls
        n == Len(calls)
        from[i \in 1..(n + 1)] ==
            IF i > n THEN <<>>
            ELSE (IF keep[i]
                  THEN <<[at |-> calls[i].at + after, this |-> calls[i].this,
                          args |-> calls[i].args]>>
                  ELSE <<>>) \o from[i + 1]
    IN  from[1]

\* the calls of the original made so far: when, on what and with what
Invocations ==
    [i \in 1..Len(debounced.invocations) |->
        [at |-> debounced.invocations[i].at, this |-> debounced.invocations[i].this,
         args |-> debounced.invocations[i].args]]

\* call i + 1 follows call i within `wait`
FollowedWithinWait(i) ==
    /\ i < Len(debounced.calls)
    /\ debounced.calls[i + 1].at - debounced.calls[i].at < debounced.wait

C24_TruncateWithinMaxLength ==
    ret.op = "truncate" =>
        /\ Len(ret.result) <= given.maxLength
        /\ Len(given.str) <= given.maxLength => ret.result = given.str
(***************************************************************************)
(* Properties of error handling                                            *)
(***************************************************************************)
\* a request calls each interceptor at most once, and an interceptor's
\* failure ends the request: it is rejected with that failure
RequestFailsAtOnce ==
    /\ \A j, k \in 1..Len(client.invoked) :
          client.invoked[j].id = client.invoked[k].id => j = k
    /\ \A k \in 1..Len(client.invoked) :
          client.invoked[k].outcome = "rejected" =>
             /\ k = Len(client.invoked)
             /\ client.settled = Some([kind |-> "rejected",
                                       value |-> ErrorOf(client.invoked[k].id)])

====
